---- MODULE Spec2Model ----
(***************************************************************************)
(* Verification model of the territory-capture simulation:                 *)
(*   TerritoryMap (tile grid with cached per-owner counts),                *)
(*   Game.update and the steps it sequences in one tick,                   *)
(*   Game.captureTerritoryFromTail (bounding box, thick line, flood fill), *)
(*   death resolution, respawn, capture queue, shrink, orphan sweep,       *)
(*   end conditions and restart.                                           *)
(* World coordinates are integer pixels; a tile is TileSize pixels wide.   *)
(***************************************************************************)
EXTENDS Integers, Sequences, FiniteSets, TLC

(***************************************************************************)
(* Bounds of the model (the arena, the roster and the horizon are scaled   *)
(* down from the configuration of the game).                               *)
(***************************************************************************)
WidthTiles == 13
HeightTiles == 5
NumBots == 2
MaxTicks == 11
StepPx == 4
SpawnMargin == 6
RespawnMargin == 10
HumanRadius == 1
BotRadius == 1
RespawnRadius == 1
DecisionTicks == 2
BoostTicks == 3
CampingThresholdTicks == 2
OrphanCheckInterval == 3
MaxDiskRadius == 1
MaxLoopSide == 4
PickupMargin == 14

(***************************************************************************)
(* Program constants.                                                      *)
(***************************************************************************)
TileSize == 4
EdgeMargin == 2
WallMargin == 2
CapturePadding == 2
PlayerRadius == 10
TailPointDistance == 4
MinSelfTail == 10
SelfHeadPoints == 5
MinVictimTail == 3
VictimHeadPoints == 2
KillsPerBoost == 3
ShrinkRate == 150
TicksPerSecond == 60
MaxBoostPickups == 5
BoostPickupRadius == 15
MaxUint8 == 255
MinCaptureTail == 3

\* ------------------------------------------------------------------------
\* Small arithmetic helpers
\* ------------------------------------------------------------------------
Abs(n) == IF n < 0 THEN 0 - n ELSE n

Min(a, b) == IF a < b THEN a ELSE b

Max(a, b) == IF a > b THEN a ELSE b

\* squared Euclidean distance between two world points
DistSq(p, q) == (p[1] - q[1]) * (p[1] - q[1]) + (p[2] - q[2]) * (p[2] - q[2])

\* ------------------------------------------------------------------------
\* gameConfig / derivedConfig
\* ------------------------------------------------------------------------
ArenaWidthPx == WidthTiles * TileSize

ArenaHeightPx == HeightTiles * TileSize

\* ------------------------------------------------------------------------
\* TerritoryMap: a record [ownerMap, tileCounts].
\*   ownerMap   : row-major array of 8-bit cells, 0 = neutral
\*   tileCounts : a Map from owner id to cached count (absent key = no entry)
\* ------------------------------------------------------------------------
TileIdx == 0 .. (WidthTiles * HeightTiles - 1)

ToUint8(v) == v % (MaxUint8 + 1)

NewTerritoryMap == [ownerMap |-> [i \in TileIdx |-> 0], tileCounts |-> << >>]

WorldToTile(p) == << p[1] \div TileSize, p[2] \div TileSize >>

\* isValidTile testing the flat index instead of each coordinate
IsValidTileByIndex(x, y) == y * WidthTiles + x >= 0 /\ y * WidthTiles + x < WidthTiles * HeightTiles

IsValidTile(x, y) == x >= 0 /\ x < WidthTiles /\ y >= 0 /\ y < HeightTiles

GetOwner(g, x, y) ==
  IF ~IsValidTile(x, y) THEN -1 ELSE g.ownerMap[y * WidthTiles + x]

GetOwnerAtWorld(g, p) == GetOwner(g, WorldToTile(p)[1], WorldToTile(p)[2])

\* Map.get(k) || dflt  (an absent key and a stored 0 both give dflt)
MapGetOr(m, k, dflt) == IF k \in DOMAIN m /\ m[k] # 0 THEN m[k] ELSE dflt

\* Map.set(k, v)
MapSet(m, k, v) == (k :> v) @@ m

CountOwnedTiles(g, id) == MapGetOr(g.tileCounts, id, 0)

GetTotalTiles == WidthTiles * HeightTiles

\* setOwner without the decrement of the previous owner's count
SetOwnerKeepingOldCount(g, x, y, ownerId) ==
  IF ~IsValidTile(x, y) \/ GetOwner(g, x, y) = ownerId THEN g
  ELSE [ownerMap |-> [g.ownerMap EXCEPT ![y * WidthTiles + x] = ToUint8(ownerId)],
        tileCounts |-> IF ownerId # 0
                       THEN MapSet(g.tileCounts, ownerId, MapGetOr(g.tileCounts, ownerId, 0) + 1)
                       ELSE g.tileCounts]

SetOwner(g, x, y, ownerId) ==
  IF ~IsValidTile(x, y) THEN g
  ELSE LET idx == y * WidthTiles + x
           oldOwner == g.ownerMap[idx]
           tc1 == IF oldOwner > 0
                  THEN MapSet(g.tileCounts, oldOwner, MapGetOr(g.tileCounts, oldOwner, 1) - 1)
                  ELSE g.tileCounts
           tc2 == IF ownerId > 0
                  THEN MapSet(tc1, ownerId, MapGetOr(tc1, ownerId, 0) + 1)
                  ELSE tc1
       IN IF oldOwner = ownerId THEN g
          ELSE [ownerMap |-> [g.ownerMap EXCEPT ![idx] = ToUint8(ownerId)], tileCounts |-> tc2]

ClearOwnerTerritory(g, ownerId) ==
  [ownerMap |-> [i \in TileIdx |-> IF g.ownerMap[i] = ownerId THEN 0 ELSE g.ownerMap[i]],
   tileCounts |-> MapSet(g.tileCounts, ownerId, 0)]

\* transferTerritory that always clears instead of handing the tiles over
TransferTerritoryCleared(g, fromOwnerId, toOwnerId) ==
  ClearOwnerTerritory(g, fromOwnerId)

TransferTerritory(g, fromOwnerId, toOwnerId) ==
  LET fromCount == MapGetOr(g.tileCounts, fromOwnerId, 0)
      tc1 == MapSet(g.tileCounts, toOwnerId, MapGetOr(g.tileCounts, toOwnerId, 0) + fromCount)
  IN [ownerMap |-> [i \in TileIdx |-> IF g.ownerMap[i] = fromOwnerId
                                      THEN ToUint8(toOwnerId) ELSE g.ownerMap[i]],
      tileCounts |-> MapSet(tc1, fromOwnerId, 0)]

\* sin(0.5 * dx) * 100 and cos(0.7 * dy) * 100, rounded, for |d| <= 4
SinHalf100(d) ==
  LET t == << 0, 48, 84, 100, 91 >> IN IF d < 0 THEN 0 - t[(0 - d) + 1] ELSE t[d + 1]

CosSeven100(d) == LET t == << 100, 76, 17, -50, -94 >> IN t[Abs(d) + 1]

\* distance <= radius + noise, noise = sin(dx*0.5) * cos(dy*0.7) * 2
InStartingBlob(dx, dy, radius) ==
  LET noise100 == (2 * SinHalf100(dx) * CosSeven100(dy)) \div 100
      threshold100 == radius * 100 + noise100
  IN threshold100 >= 0 /\ (dx * dx + dy * dy) * 10000 <= threshold100 * threshold100

RECURSIVE GenerateLoop(_, _, _, _, _, _)
\* the dy/dx double loop of generateStartingTerritory over the row-major offsets
\* lo .. hi - 1, in order (first half, then second half)
GenerateLoop(g, centerTile, ownerId, radius, lo, hi) ==
  LET side == 2 * radius + 1
      dx == (lo % side) - radius
      dy == (lo \div side) - radius
      mid == (lo + hi) \div 2
  IN IF hi <= lo THEN g
     ELSE IF hi = lo + 1
     THEN IF InStartingBlob(dx, dy, radius)
          THEN SetOwner(g, centerTile[1] + dx, centerTile[2] + dy, ownerId)
          ELSE g
     ELSE LET firstHalf == GenerateLoop(g, centerTile, ownerId, radius, lo, mid)
          IN \* the grid keeps its size; the first half is complete before the second starts
             IF DOMAIN firstHalf.ownerMap = TileIdx
             THEN GenerateLoop(firstHalf, centerTile, ownerId, radius, mid, hi)
             ELSE firstHalf

GenerateStartingTerritory(g, center, ownerId, radius) ==
  GenerateLoop(g, WorldToTile(center), ownerId, radius, 0, (2 * radius + 1) * (2 * radius + 1))

GetBorderTiles(g, ownerId) ==
  { t \in (0 .. WidthTiles - 1) \X (0 .. HeightTiles - 1) :
      /\ g.ownerMap[t[2] * WidthTiles + t[1]] = ownerId
      /\ \/ GetOwner(g, t[1] - 1, t[2]) # ownerId
         \/ GetOwner(g, t[1] + 1, t[2]) # ownerId
         \/ GetOwner(g, t[1], t[2] - 1) # ownerId
         \/ GetOwner(g, t[1], t[2] + 1) # ownerId }

\* full rescan of the grid (what the cache is supposed to equal)
OwnedTiles(g, id) == { i \in TileIdx : g.ownerMap[i] = id }

\* ------------------------------------------------------------------------
\* Game.markThickLine / Game.captureTerritoryFromTail
\* ------------------------------------------------------------------------
\* 3x3 stamp around local cell (cx, cy), clipped to the box
\* the stamp reduced to its centre cell
StampCentre(cx, cy, width, height) ==
  { c \in {<< cx, cy >>} : c[1] >= 0 /\ c[1] < width /\ c[2] >= 0 /\ c[2] < height }

Stamp(cx, cy, width, height) ==
  { c \in ((cx - 1) .. (cx + 1)) \X ((cy - 1) .. (cy + 1)) :
      c[1] >= 0 /\ c[1] < width /\ c[2] >= 0 /\ c[2] < height }

RECURSIVE BresenhamWalk(_, _, _, _, _, _, _, _, _, _, _)
\* the while(true) loop of markThickLine: cells marked from (x0,y0) on
BresenhamWalk(width, height, x0, y0, x1, y1, dx, dy, sx, sy, err) ==
  LET here == Stamp(x0, y0, width, height)
      e2 == 2 * err
      stepX == e2 > 0 - dy
      stepY == e2 < dx
      errX == IF stepX THEN err - dy ELSE err
      nx == IF stepX THEN x0 + sx ELSE x0
      errY == IF stepY THEN errX + dx ELSE errX
      ny == IF stepY THEN y0 + sy ELSE y0
  IN IF x0 = x1 /\ y0 = y1 THEN here
     ELSE here \cup BresenhamWalk(width, height, nx, ny, x1, y1, dx, dy, sx, sy, errY)

MarkThickLine(width, height, offsetX, offsetY, ax, ay, bx, by) ==
  LET x0 == ax - offsetX
      y0 == ay - offsetY
      x1 == bx - offsetX
      y1 == by - offsetY
      dx == Abs(x1 - x0)
      dy == Abs(y1 - y0)
      sx == IF x0 < x1 THEN 1 ELSE -1
      sy == IF y0 < y1 THEN 1 ELSE -1
  IN BresenhamWalk(width, height, x0, y0, x1, y1, dx, dy, sx, sy, dx - dy)

\* tail points converted to tiles, closed with the player's current tile
TailTiles(pos, tail) == [i \in 1 .. Len(tail) |-> WorldToTile(tail[i])] \o << WorldToTile(pos) >>

\* padded bounding box of the tail tiles and all tiles owned by the player
CaptureBox(g, ownerId, tailTiles) ==
  LET owned == { t \in (0 .. WidthTiles - 1) \X (0 .. HeightTiles - 1) :
                   GetOwner(g, t[1], t[2]) = ownerId }
      pts == { tailTiles[i] : i \in 1 .. Len(tailTiles) } \cup owned
      loX == CHOOSE v \in { p[1] : p \in pts } : \A p \in pts : v <= p[1]
      hiX == CHOOSE v \in { p[1] : p \in pts } : \A p \in pts : v >= p[1]
      loY == CHOOSE v \in { p[2] : p \in pts } : \A p \in pts : v <= p[2]
      hiY == CHOOSE v \in { p[2] : p \in pts } : \A p \in pts : v >= p[2]
  IN [minX |-> Max(0, loX - CapturePadding),
      maxX |-> Min(WidthTiles - 1, hiX + CapturePadding),
      minY |-> Max(0, loY - CapturePadding),
      maxY |-> Min(HeightTiles - 1, hiY + CapturePadding)]

\* local cells of the box holding existing territory of the player
TerritoryBarrier(g, ownerId, box) ==
  { c \in (0 .. box.maxX - box.minX) \X (0 .. box.maxY - box.minY) :
      GetOwner(g, c[1] + box.minX, c[2] + box.minY) = ownerId }

\* local cells marked by the thick lines and by the per-vertex stamps
TailBarrier(tailTiles, box) ==
  LET boxWidth == box.maxX - box.minX + 1
      boxHeight == box.maxY - box.minY + 1
  IN UNION { MarkThickLine(boxWidth, boxHeight, box.minX, box.minY,
                           tailTiles[i][1], tailTiles[i][2],
                           tailTiles[i + 1][1], tailTiles[i + 1][2]) :
               i \in 1 .. Len(tailTiles) - 1 }
     \cup UNION { Stamp(tailTiles[i][1] - box.minX, tailTiles[i][2] - box.minY,
                        boxWidth, boxHeight) : i \in 1 .. Len(tailTiles) }

Neighbours4(c, boxWidth, boxHeight) ==
  { n \in { << c[1] - 1, c[2] >>, << c[1] + 1, c[2] >>, << c[1], c[2] - 1 >>, << c[1], c[2] + 1 >> } :
      n[1] >= 0 /\ n[1] < boxWidth /\ n[2] >= 0 /\ n[2] < boxHeight }

RECURSIVE FloodFill(_, _, _, _, _)
\* breadth-first fill: cells marked "outside" starting from the frontier
FloodFill(frontier, outside, barrier, boxWidth, boxHeight) ==
  LET next == { n \in UNION { Neighbours4(c, boxWidth, boxHeight) : c \in frontier } :
                  n \notin barrier /\ n \notin outside }
  IN IF frontier = {} THEN outside
     ELSE FloodFill(next, outside \cup next, barrier, boxWidth, boxHeight)

\* the fill never seeded: no cell of the box is marked outside
OutsideCellsUnseeded(barrier, boxWidth, boxHeight) ==
  FloodFill({}, {}, barrier, boxWidth, boxHeight)

\* cells of the box marked outside: seeded from the unknown cells of the four edges
OutsideCells(barrier, boxWidth, boxHeight) ==
  LET seeds == { c \in (0 .. boxWidth - 1) \X (0 .. boxHeight - 1) :
                   /\ c \notin barrier
                   /\ (c[1] = 0 \/ c[1] = boxWidth - 1 \/ c[2] = 0 \/ c[2] = boxHeight - 1) }
  IN FloodFill(seeds, seeds, barrier, boxWidth, boxHeight)

\* the final double loop taking every cell of the box the player does not own
AnnexedUnlessOwned(g, ownerId, box, barrier, outside, k) ==
  LET boxWidth == box.maxX - box.minX + 1
  IN GetOwner(g, (k % boxWidth) + box.minX, (k \div boxWidth) + box.minY) # ownerId

\* the condition under which the final by/bx double loop annexes local cell
\* number k (row-major in the box): unknown, or barrier not yet owned
Annexed(g, ownerId, box, barrier, outside, k) ==
  LET boxWidth == box.maxX - box.minX + 1
      bx == k % boxWidth
      by == k \div boxWidth
  IN \/ << bx, by >> \notin barrier /\ << bx, by >> \notin outside
     \/ << bx, by >> \in barrier /\ GetOwner(g, bx + box.minX, by + box.minY) # ownerId

RECURSIVE AnnexLoop(_, _, _, _, _, _)
\* the double loop resumed at cell k: it passes over the cells it leaves
\* alone, annexes the first one it takes and goes on from there
AnnexLoop(g, ownerId, box, barrier, outside, k) ==
  LET boxWidth == box.maxX - box.minX + 1
      boxHeight == box.maxY - box.minY + 1
      hits == { i \in k .. (boxWidth * boxHeight - 1) :
                  Annexed(g, ownerId, box, barrier, outside, i) }
      first == CHOOSE i \in hits : \A j \in hits : i <= j
  IN IF hits = {} THEN g
     ELSE AnnexLoop(SetOwner(g, (first % boxWidth) + box.minX,
                             (first \div boxWidth) + box.minY, ownerId),
                    ownerId, box, barrier, outside, first + 1)

\* captureTerritoryFromTail past its length guard
CaptureLoop(g, ownerId, pos, tail) ==
  LET tailTiles == TailTiles(pos, tail)
      box == CaptureBox(g, ownerId, tailTiles)
      boxWidth == box.maxX - box.minX + 1
      boxHeight == box.maxY - box.minY + 1
      barrier == TerritoryBarrier(g, ownerId, box) \cup TailBarrier(tailTiles, box)
      outside == OutsideCells(barrier, boxWidth, boxHeight)
  IN AnnexLoop(g, ownerId, box, barrier, outside, 0)

\* captureTerritoryFromTail without the guard on the length of the trail
CaptureTerritoryFromTailUnguarded(g, ownerId, pos, tail) ==
  CaptureLoop(g, ownerId, pos, tail)

CaptureTerritoryFromTail(g, ownerId, pos, tail) ==
  IF Len(tail) < MinCaptureTail THEN g
  ELSE CaptureLoop(g, ownerId, pos, tail)


\* ------------------------------------------------------------------------
\* The roster and the inputs of the simulation
\* ------------------------------------------------------------------------
Human == 1

Agents == 1 .. (NumBots + 1)

Bots == 2 .. (NumBots + 1)

Dirs == {"E", "S", "W", "N"}

Difficulties == {"easy", "hard", "impossible"}

NoPoint == << >>

\* unit vector of a heading (Player.dir)
DirVec(d) ==
  IF d = "E" THEN << 1, 0 >>
  ELSE IF d = "W" THEN << -1, 0 >>
  ELSE IF d = "S" THEN << 0, 1 >>
  ELSE << 0, -1 >>

\* where createBots may place a bot: the ends of the random range, middle row
BotSpawnPoints ==
  { << x, ArenaHeightPx \div 2 >> : x \in {SpawnMargin, ArenaWidthPx - SpawnMargin} }

\* where respawnPlayerEntity may place a bot
RespawnPoints ==
  { << x, ArenaHeightPx \div 2 >> : x \in {RespawnMargin, ArenaWidthPx - RespawnMargin} }

HumanStart == << ArenaWidthPx \div 2, ArenaHeightPx \div 2 >>

NewPlayer(start, hd) ==
  [pos |-> start, heading |-> hd, alive |-> TRUE, tail |-> << >>,
   isDrawingTail |-> FALSE, lastTailPoint |-> NoPoint, kills |-> 0]

VARIABLES
  territoryMap,        \* TerritoryMap: [ownerMap, tileCounts]
  players,             \* allPlayers: id -> Player
  wasInOwnTerritory,   \* Map id -> boolean
  captureQueue,        \* sequence of [player, tail, serial]
  campingTimers,       \* Map id -> ticks
  shrinkAccumulators,  \* Map id -> accumulator units
  boostEndTimes,       \* Map id -> time
  decisionTimer,       \* BotAI.decisionTimer per bot, in ticks
  botAI,               \* the tracked BotAI objects: id -> [state, target, ...]
  orphanCheckCounter,
  gameOver,
  isVictory,
  difficulty,
  now,                 \* clock, in ticks since construction
  pc,                  \* position inside Game.update
  cur,                 \* index of the player of the running per-player loop
  boostPickups,        \* set of [pos, playerOnly]
  steerLeft,           \* input events (mouse moves, bot re-targets) still allowed
  restartLeft,         \* restarts still allowed
  pickupLeft,          \* boost pickups still to be spawned
  stallLeft,           \* drains that may still run out of time budget
  spawnSet,            \* bot placements createBots may draw
  hist                 \* history of the current tick and match (not program state)

vars == << territoryMap, players, wasInOwnTerritory, captureQueue, campingTimers,
           shrinkAccumulators, boostEndTimes, decisionTimer, botAI, orphanCheckCounter,
           gameOver, isVictory, difficulty, now, pc, cur, boostPickups, steerLeft,
           restartLeft, pickupLeft, stallLeft, spawnSet, hist >>


\* the mutable objects a handler works on, bundled for the loops that call
\* handlePlayerDeath
World ==
  [territoryMap |-> territoryMap, players |-> players,
   wasInOwnTerritory |-> wasInOwnTerritory, captureQueue |-> captureQueue,
   boostEndTimes |-> boostEndTimes, hist |-> hist]

\* the step that is running joins the record of this tick
Logged(h) == [h EXCEPT !.steps = Append(@, pc)]

SetWorld(w) ==
  /\ territoryMap' = w.territoryMap
  /\ players' = w.players
  /\ wasInOwnTerritory' = w.wasInOwnTerritory
  /\ captureQueue' = w.captureQueue
  /\ boostEndTimes' = w.boostEndTimes
  /\ hist' = Logged(w.hist)

\* history emptied at the start of every tick
NewTickHist(h) ==
  [h EXCEPT !.killLog = << >>, !.nearAny = {}, !.nearOld = {}, !.killsBefore = << >>,
            !.deaths = << >>, !.queueBefore = << >>, !.gridBefore = << >>,
            !.drained = 0, !.applied = << >>, !.steps = << >>,
            !.passPlayers = << >>, !.passBoost = << >>,
            !.sweepDue = FALSE, !.sweepBefore = << >>]

\* killLog, nearAny, nearOld, killsBefore: the cross-agent collision pass of this tick
\* deaths: every handlePlayerDeath call of this tick, with the grid around it
\* queueBefore, gridBefore, drained, applied: the drain of this tick
\* serial, nApplied: jobs ever enqueued / ever applied or discarded
\* restartSerial, discarded: the last serial handed out before the latest restart,
\*   and how many queued jobs the restarts have thrown away
\* steps: the steps of update that have run in this tick, in order
\* enqueuedAt: where the agent stood when the job of each serial was queued
\* sweepDue, sweepBefore: whether the throttle of captureOrphanedTiles let the
\*   call of this tick through, and the grid that call found
\* passPlayers, passBoost: the agents and boosts as the collision pass of this
\*   tick found them
\* mapOp, mapArgs, mapBefore, mapMid, mapRet: a TerritoryMap call made on its
\*   own: which, its arguments, the map before it and between its two halves,
\*   and what getOwner returned
NewHist ==
  [killLog |-> << >>, nearAny |-> {}, nearOld |-> {}, killsBefore |-> << >>,
   deaths |-> << >>, queueBefore |-> << >>, gridBefore |-> << >>, drained |-> 0,
   applied |-> << >>, serial |-> 0, nApplied |-> 0, restartSerial |-> 0,
   discarded |-> 0, steps |-> << >>, passPlayers |-> << >>, passBoost |-> << >>,
   mapOp |-> "", mapArgs |-> << >>, mapBefore |-> << >>, mapMid |-> << >>, mapRet |-> 0,
   sweepDue |-> FALSE, sweepBefore |-> << >>, enqueuedAt |-> << >>,
   botBranch |-> "", botChosen |-> << >>, botBefore |-> << >>]

\* dist < playerRadius * 0.8, on squared distances
WithinCollisionDist(dSq) == 25 * dSq < 16 * PlayerRadius * PlayerRadius

\* ------------------------------------------------------------------------
\* Game.respawnPlayerEntity / Game.handlePlayerDeath
\* ------------------------------------------------------------------------
RespawnChoices == { [pos |-> q, heading |-> d] : q \in RespawnPoints, d \in {"E", "W"} }

\* respawnPlayerEntity without the final player.alive = true
RespawnPlayerEntityStillDead(w, id, sp) ==
  LET spawn == IF id = Human THEN HumanStart ELSE sp.pos
      startRadius == IF id = Human THEN HumanRadius ELSE RespawnRadius
      cleared == ClearOwnerTerritory(w.territoryMap, id)
  IN [w EXCEPT
        !.territoryMap = GenerateStartingTerritory(cleared, spawn, id, startRadius),
        !.players[id] = [@ EXCEPT !.pos = spawn, !.tail = << >>, !.isDrawingTail = FALSE,
                                  !.lastTailPoint = NoPoint, !.heading = sp.heading],
        !.wasInOwnTerritory = MapSet(@, id, TRUE)]

RespawnPlayerEntity(w, id, sp) ==
  LET spawn == IF id = Human THEN HumanStart ELSE sp.pos
      startRadius == IF id = Human THEN HumanRadius ELSE RespawnRadius
      cleared == ClearOwnerTerritory(w.territoryMap, id)
  IN [w EXCEPT
        !.territoryMap = GenerateStartingTerritory(cleared, spawn, id, startRadius),
        !.players[id] = [@ EXCEPT !.pos = spawn, !.tail = << >>, !.isDrawingTail = FALSE,
                                  !.lastTailPoint = NoPoint, !.heading = sp.heading,
                                  !.alive = TRUE],
        !.wasInOwnTerritory = MapSet(@, id, TRUE)]

ResolveDeath(w, id, killer, sp) ==
  LET w1 == [w EXCEPT !.players[id] = [@ EXCEPT !.alive = FALSE, !.tail = << >>,
                                                !.isDrawingTail = FALSE,
                                                !.lastTailPoint = NoPoint]]
  IN IF killer # 0
     THEN IF difficulty = "impossible" /\ killer = Human
          THEN [w1 EXCEPT !.territoryMap = ClearOwnerTerritory(@, id)]
          ELSE [w1 EXCEPT !.territoryMap = TransferTerritory(@, id, killer)]
     ELSE LET w2 == [w1 EXCEPT !.territoryMap = ClearOwnerTerritory(@, id)]
          IN IF id = Human THEN w2 ELSE RespawnPlayerEntity(w2, id, sp)

\* handlePlayerDeath, killer 0 standing for "no killer"; the call is logged
HandlePlayerDeath(w, id, killer, sp) ==
  LET r == ResolveDeath(w, id, killer, sp)
  IN [r EXCEPT !.hist.deaths =
        Append(@, [victim |-> id, killer |-> killer, mode |-> difficulty,
                   before |-> w.territoryMap.ownerMap,
                   after |-> r.territoryMap.ownerMap,
                   player |-> r.players[id]])]

\* ------------------------------------------------------------------------
\* Boost state
\* ------------------------------------------------------------------------
\* isPlayerBoosted looking only for an entry, not at its end time
HasBoostEntry(boost, id) == id \in DOMAIN boost

IsPlayerBoosted(boost, id) == id \in DOMAIN boost /\ now < boost[id]

UpdateBoost(boost) == [id \in { i \in DOMAIN boost : ~(now > boost[i]) } |-> boost[id]]

ActivateBoost(boost, id) == MapSet(boost, id, now + BoostTicks)

\* ------------------------------------------------------------------------
\* Player.update: forward motion along the heading, clamped to the arena
\* ------------------------------------------------------------------------
Clamp(v, lo, hi) == Max(lo, Min(hi, v))

\* Player.update without the clamp to the arena
PlayerUpdateUnclamped(p, hd, step) ==
  IF ~p.alive THEN p
  ELSE [p EXCEPT !.heading = hd,
                 !.pos = << p.pos[1] + DirVec(hd)[1] * step, p.pos[2] + DirVec(hd)[2] * step >>]

\* Player.update without its test of alive
PlayerUpdateDeadToo(p, hd, step) ==
  [p EXCEPT !.heading = hd,
            !.pos = << Clamp(p.pos[1] + DirVec(hd)[1] * step, EdgeMargin, ArenaWidthPx - EdgeMargin),
                       Clamp(p.pos[2] + DirVec(hd)[2] * step, EdgeMargin, ArenaHeightPx - EdgeMargin) >>]

PlayerUpdate(p, hd, step) ==
  IF ~p.alive THEN p
  ELSE [p EXCEPT !.heading = hd,
                 !.pos = << Clamp(p.pos[1] + DirVec(hd)[1] * step, EdgeMargin, ArenaWidthPx - EdgeMargin),
                            Clamp(p.pos[2] + DirVec(hd)[2] * step, EdgeMargin, ArenaHeightPx - EdgeMargin) >>]

\* distance covered in one tick: speed * dt, with boost and difficulty multipliers
StepOf(id) ==
  LET base == IF id # Human /\ difficulty = "impossible" THEN 2 * StepPx ELSE StepPx
  IN IF IsPlayerBoosted(boostEndTimes, id) THEN (3 * base) \div 2 ELSE base


\* ------------------------------------------------------------------------
\* Game.pointToLineDistance / Game.checkSelfTailCollisionForPlayer
\* ------------------------------------------------------------------------
\* pointToLineDistance(point, a, b) < collisionDist, on exact integers
SegmentWithinCollisionDist(point, a, b) ==
  LET lenSq == DistSq(a, b)
      dot == (point[1] - a[1]) * (b[1] - a[1]) + (point[2] - a[2]) * (b[2] - a[2])
  IN IF lenSq = 0 \/ dot <= 0 THEN WithinCollisionDist(DistSq(point, a))
     ELSE IF dot >= lenSq THEN WithinCollisionDist(DistSq(point, b))
     ELSE 25 * (DistSq(point, a) * lenSq - dot * dot) < 16 * PlayerRadius * PlayerRadius * lenSq

\* the self-collision test without the minimum trail length
CheckSelfTailCollisionUngated(p) ==
  LET n == Len(p.tail)
  IN \/ \E i \in 1 .. (n - SelfHeadPoints) : WithinCollisionDist(DistSq(p.pos, p.tail[i]))
     \/ \E i \in 1 .. (n - SelfHeadPoints - 1) :
          SegmentWithinCollisionDist(p.pos, p.tail[i], p.tail[i + 1])

CheckSelfTailCollisionForPlayer(p) ==
  LET n == Len(p.tail)
  IN /\ n >= MinSelfTail
     /\ \/ \E i \in 1 .. (n - SelfHeadPoints) : WithinCollisionDist(DistSq(p.pos, p.tail[i]))
        \/ \E i \in 1 .. (n - SelfHeadPoints - 1) :
             SegmentWithinCollisionDist(p.pos, p.tail[i], p.tail[i + 1])

\* ------------------------------------------------------------------------
\* Game.queueCapture / Game.updateTailMechanicsForPlayer
\* ------------------------------------------------------------------------
\* queueCapture pushing the live trail, which the caller empties, not a copy
QueueCaptureLiveTail(w, id) ==
  LET job == [player |-> id, tail |-> << >>, serial |-> w.hist.serial + 1]
  IN [w EXCEPT !.captureQueue = Append(@, job),
               !.hist.serial = @ + 1,
               !.hist.enqueuedAt = Append(@, w.players[id].pos)]

\* queueCapture running the capture on the spot instead of queueing it
CaptureAtReentry(w, id) ==
  [w EXCEPT !.territoryMap = CaptureTerritoryFromTail(@, id, w.players[id].pos,
                                                      w.players[id].tail)]

QueueCapture(w, id) ==
  LET job == [player |-> id, tail |-> w.players[id].tail, serial |-> w.hist.serial + 1]
  IN [w EXCEPT !.captureQueue = Append(@, job),
               !.hist.serial = @ + 1,
               !.hist.enqueuedAt = Append(@, w.players[id].pos)]

\* updateTailMechanicsForPlayer leaving isDrawingTail set on re-entry
UpdateTailMechanicsStillDrawing(w, id, sp) ==
  LET p == w.players[id]
      isInOwnTerritory == GetOwnerAtWorld(w.territoryMap, p.pos) = id
      wasInOwn == IF id \in DOMAIN w.wasInOwnTerritory THEN w.wasInOwnTerritory[id] ELSE TRUE
      reentered == [(IF ~wasInOwn /\ Len(p.tail) > 0 THEN QueueCapture(w, id) ELSE w)
                      EXCEPT !.players[id] = [@ EXCEPT !.tail = << >>,
                                                       !.lastTailPoint = NoPoint]]
      started == [w EXCEPT !.players[id] = [@ EXCEPT !.isDrawingTail = TRUE,
                                                     !.tail = << p.pos >>,
                                                     !.lastTailPoint = p.pos]]
      pushed == [w EXCEPT !.players[id] = [@ EXCEPT !.tail = Append(@, p.pos),
                                                    !.lastTailPoint = p.pos]]
      after == IF isInOwnTerritory THEN reentered
               ELSE IF ~p.isDrawingTail THEN started
               ELSE IF DistSq(p.pos, p.lastTailPoint) >= TailPointDistance * TailPointDistance
                    THEN IF CheckSelfTailCollisionForPlayer(pushed.players[id])
                         THEN HandlePlayerDeath(pushed, id, 0, sp)
                         ELSE pushed
                    ELSE w
  IN [after EXCEPT !.wasInOwnTerritory = MapSet(@, id, isInOwnTerritory)]

UpdateTailMechanicsForPlayer(w, id, sp) ==
  LET p == w.players[id]
      isInOwnTerritory == GetOwnerAtWorld(w.territoryMap, p.pos) = id
      wasInOwn == IF id \in DOMAIN w.wasInOwnTerritory THEN w.wasInOwnTerritory[id] ELSE TRUE
      reentered == [(IF ~wasInOwn /\ Len(p.tail) > 0 THEN QueueCapture(w, id) ELSE w)
                      EXCEPT !.players[id] = [@ EXCEPT !.tail = << >>, !.isDrawingTail = FALSE,
                                                       !.lastTailPoint = NoPoint]]
      started == [w EXCEPT !.players[id] = [@ EXCEPT !.isDrawingTail = TRUE,
                                                     !.tail = << p.pos >>,
                                                     !.lastTailPoint = p.pos]]
      pushed == [w EXCEPT !.players[id] = [@ EXCEPT !.tail = Append(@, p.pos),
                                                    !.lastTailPoint = p.pos]]
      after == IF isInOwnTerritory THEN reentered
               ELSE IF ~p.isDrawingTail THEN started
               ELSE IF DistSq(p.pos, p.lastTailPoint) >= TailPointDistance * TailPointDistance
                    THEN IF CheckSelfTailCollisionForPlayer(pushed.players[id])
                         THEN HandlePlayerDeath(pushed, id, 0, sp)
                         ELSE pushed
                    ELSE w
  IN [after EXCEPT !.wasInOwnTerritory = MapSet(@, id, isInOwnTerritory)]

\* ------------------------------------------------------------------------
\* Game.checkWallCollisions
\* ------------------------------------------------------------------------
BeyondWall(q) ==
  \/ q[1] < WallMargin \/ q[1] > ArenaWidthPx - WallMargin
  \/ q[2] < WallMargin \/ q[2] > ArenaHeightPx - WallMargin

RECURSIVE WallLoop(_, _)
\* the loop over allPlayers from index i on; the set of possible outcomes
WallLoop(w, i) ==
  IF i > NumBots + 1 THEN {w}
  ELSE IF w.players[i].alive /\ BeyondWall(w.players[i].pos)
       THEN UNION { WallLoop(HandlePlayerDeath(w, i, 0, sp), i + 1) : sp \in RespawnChoices }
       ELSE WallLoop(w, i + 1)

\* ------------------------------------------------------------------------
\* Game.checkAllTailCollisions
\* ------------------------------------------------------------------------
\* the collision test with one more point of the victim's head left out
AttackerHitsOlder(att, vic) ==
  \E i \in 1 .. (Len(vic.tail) - VictimHeadPoints - 1) :
     WithinCollisionDist(DistSq(att.pos, vic.tail[i]))

AttackerHits(att, vic) ==
  \E i \in 1 .. (Len(vic.tail) - VictimHeadPoints) :
     WithinCollisionDist(DistSq(att.pos, vic.tail[i]))

\* the attacker is within collision distance of a trail point of the victim,
\* the newest skip points left out (for the history of the pass)
NearTrailPoint(att, vic, skip) ==
  \E i \in 1 .. (Len(vic.tail) - skip) : WithinCollisionDist(DistSq(att.pos, vic.tail[i]))

\* a boost for every kill
EarnsBoostAlways(kills) == kills > 0

\* attacker.kills % 3 === 0, on the count the kill has just raised
EarnsBoost(kills) == kills % KillsPerBoost = 0

\* the kill branch without attacker.kills++
KillVictimUncredited(w, a, v) ==
  [HandlePlayerDeath(w, v, a, CHOOSE sp \in RespawnChoices : TRUE)
     EXCEPT !.hist.killLog = Append(@, [attacker |-> a, victim |-> v])]

KillVictim(w, a, v) ==
  LET w1 == HandlePlayerDeath(w, v, a, CHOOSE sp \in RespawnChoices : TRUE)
      newKills == w1.players[a].kills + 1
  IN [w1 EXCEPT !.players[a].kills = newKills,
                !.boostEndTimes = IF EarnsBoost(newKills)
                                  THEN ActivateBoost(@, a) ELSE @,
                !.hist.killLog = Append(@, [attacker |-> a, victim |-> v])]

\* the double loop walking the attackers from the end of allPlayers
PairAtLastAttackerFirst(k) ==
  << (NumBots + 1) - (k \div (NumBots + 1)), (k % (NumBots + 1)) + 1 >>

\* the k-th << attacker, victim >> of the double loop over allPlayers
PairAt(k) == << (k \div (NumBots + 1)) + 1, (k % (NumBots + 1)) + 1 >>

RECURSIVE CollisionLoop(_, _)
\* the attacker/victim double loop, k counting the pairs in evaluation order
CollisionLoop(w, k) ==
  LET n == NumBots + 1
      a == PairAt(k)[1]
      v == PairAt(k)[2]
      evaluated == /\ w.players[a].alive
                   /\ w.players[v].alive
                   /\ a # v
                   /\ Len(w.players[v].tail) >= MinVictimTail
                   /\ ~IsPlayerBoosted(w.boostEndTimes, v)
      facing == /\ w.players[a].alive
                /\ w.players[v].alive
                /\ a # v
                /\ ~IsPlayerBoosted(w.boostEndTimes, v)
      seen == [w EXCEPT
                 !.hist.nearAny = IF facing /\ NearTrailPoint(w.players[a], w.players[v], 0)
                                  THEN @ \cup {<< a, v >>} ELSE @,
                 !.hist.nearOld = IF facing /\ NearTrailPoint(w.players[a], w.players[v],
                                                              VictimHeadPoints)
                                  THEN @ \cup {<< a, v >>} ELSE @]
  IN IF k >= n * n THEN w
     ELSE IF evaluated /\ AttackerHits(w.players[a], w.players[v])
          THEN CollisionLoop(KillVictim(seen, a, v), k + 1)
          ELSE CollisionLoop(seen, k + 1)

\* ------------------------------------------------------------------------
\* Game.processQueuedCaptures
\* ------------------------------------------------------------------------
RECURSIVE ApplyJobsNewestFirst(_, _)
\* the drain popping the newest job instead of shifting the oldest
ApplyJobsNewestFirst(w, k) ==
  IF k = 0 THEN w
  ELSE LET capture == w.captureQueue[Len(w.captureQueue)]
       IN ApplyJobsNewestFirst(
            [w EXCEPT
               !.captureQueue = SubSeq(@, 1, Len(@) - 1),
               !.territoryMap = CaptureTerritoryFromTail(
                                  @, capture.player,
                                  w.players[capture.player].pos, capture.tail),
               !.hist.applied = Append(@, capture.serial),
               !.hist.nApplied = @ + 1],
            k - 1)

RECURSIVE ApplyJobs(_, _)
\* k iterations of the while loop: shift the head job and apply it in full
ApplyJobs(w, k) ==
  IF k = 0 THEN w
  ELSE LET capture == Head(w.captureQueue)
       IN ApplyJobs([w EXCEPT
                       !.captureQueue = Tail(@),
                       !.territoryMap = CaptureTerritoryFromTail(
                                          @, capture.player,
                                          w.players[capture.player].pos, capture.tail),
                       !.hist.applied = Append(@, capture.serial),
                       !.hist.nApplied = @ + 1],
                    k - 1)

\* ------------------------------------------------------------------------
\* Game.captureOrphanedTiles
\* ------------------------------------------------------------------------
\* isPlayerOrEdge without the test for the arena edge
IsPlayerOnly(g, x, y) == GetOwner(g, x, y) = Human

IsPlayerOrEdge(g, x, y) ==
  IF x < 0 \/ x >= WidthTiles \/ y < 0 \/ y >= HeightTiles THEN TRUE
  ELSE GetOwner(g, x, y) = Human

\* the condition under which the scan annexes tile number k (row-major)
Enclosed(g, k) ==
  LET x == k % WidthTiles
      y == k \div WidthTiles
  IN /\ GetOwner(g, x, y) = 0
     /\ IsPlayerOrEdge(g, x, y - 1) /\ IsPlayerOrEdge(g, x, y + 1)
     /\ IsPlayerOrEdge(g, x - 1, y) /\ IsPlayerOrEdge(g, x + 1, y)

RECURSIVE OrphanLoop(_, _)
\* the y/x scan resumed at tile number k: it passes over the tiles that are
\* not enclosed, annexes the first enclosed one and goes on from the grid so
\* changed
OrphanLoop(g, k) ==
  LET hits == { i \in k .. (WidthTiles * HeightTiles - 1) : Enclosed(g, i) }
      first == CHOOSE i \in hits : \A j \in hits : i <= j
  IN IF hits = {} THEN g
     ELSE OrphanLoop(SetOwner(g, first % WidthTiles, first \div WidthTiles, Human), first + 1)

\* ------------------------------------------------------------------------
\* Game.shrinkTerritory / Game.updateCampingMechanic
\* ------------------------------------------------------------------------
RECURSIVE SetOwnerAll(_, _, _)
SetOwnerAll(g, tiles, ownerId) ==
  IF tiles = {} THEN g
  ELSE LET t == CHOOSE e \in tiles : TRUE
           next == SetOwner(g, t[1], t[2], ownerId)
       IN IF DOMAIN next.ownerMap = TileIdx
          THEN SetOwnerAll(next, tiles \ {t}, ownerId)
          ELSE next

\* results of the Fisher-Yates shuffle that are explored: the scan order of
\* getBorderTiles kept, and that order reversed
ShuffleOrders == {"kept", "reversed"}

\* the first n tiles of the shuffled list, the tile under the player left out
FirstTiles(tiles, n, order) ==
  LET rank(t) == t[2] * WidthTiles + t[1]
      before(u, t) == IF order = "kept" THEN rank(u) < rank(t) ELSE rank(u) > rank(t)
  IN { t \in tiles : Cardinality({ u \in tiles : before(u, t) }) < n }

\* shrinkTerritory without the skip of the tile under the player
ShrinkTerritoryAnyTile(g, playerId, pos, tilesToRemove) ==
  LET borderTiles == GetBorderTiles(g, playerId)
  IN IF borderTiles = {} THEN {g}
     ELSE { SetOwnerAll(g, FirstTiles(borderTiles, tilesToRemove, order), 0) :
              order \in ShuffleOrders }

\* every explored grid after shrinkTerritory(playerId, tilesToRemove)
ShrinkTerritory(g, playerId, pos, tilesToRemove) ==
  LET borderTiles == GetBorderTiles(g, playerId)
      removable == borderTiles \ {WorldToTile(pos)}
  IN IF borderTiles = {} THEN {g}
     ELSE { SetOwnerAll(g, FirstTiles(removable, tilesToRemove, order), 0) :
              order \in ShuffleOrders }

\* the accumulator is kept in units of 1/(2*ShrinkRate) s, so dt is AccPerTick
AccScale == 2 * ShrinkRate
AccPerTick == AccScale \div TicksPerSecond

ShrinkRateOf(diff) == IF diff = "impossible" THEN ShrinkRate * 2 ELSE ShrinkRate

\* Math.floor(shrinkAccum * shrinkRate): at the base rate a product that is a
\* whole number in exact arithmetic comes out just below it in doubles
\* (2, 2, 3, 2, 3, ... tiles on successive ticks), at the doubled rate it is exact
TilesToRemove(acc, rate) ==
  IF rate = ShrinkRate /\ (acc * rate) % AccScale = 0
  THEN (acc * rate) \div AccScale - 1
  ELSE (acc * rate) \div AccScale

\* a timer that runs down without a floor
DecayTimerUnfloored(campingTime) == campingTime - 1

\* Math.max(0, campingTime - dt), dt being one tick
DecayTimer(campingTime) == Max(0, campingTime - 1)

RECURSIVE CampingLoop(_, _)
\* the loop over allPlayers from index i; st = [tm, timers, accs]; all outcomes
CampingLoop(st, i) ==
  IF i > NumBots + 1 THEN {st}
  ELSE LET p == players[i]
           campingTime == MapGetOr(st.timers, i, 0)
           shrinkAccum == MapGetOr(st.accs, i, 0)
           camping == GetOwnerAtWorld(st.tm, p.pos) = i /\ Len(p.tail) = 0
           rate == ShrinkRateOf(difficulty)
           acc1 == shrinkAccum + AccPerTick
           n == TilesToRemove(acc1, rate)
           done(tm, t, a) == [tm |-> tm, timers |-> MapSet(st.timers, i, t),
                              accs |-> MapSet(st.accs, i, a)]
       IN IF ~p.alive THEN CampingLoop(done(st.tm, 0, 0), i + 1)
          ELSE IF camping
               THEN IF campingTime + 1 > CampingThresholdTicks
                    THEN IF n > 0
                         THEN UNION { CampingLoop(done(g, campingTime + 1,
                                                       acc1 - n * (AccScale \div rate)), i + 1) :
                                        g \in ShrinkTerritory(st.tm, i, p.pos, n) }
                         ELSE CampingLoop(done(st.tm, campingTime + 1, acc1), i + 1)
                    ELSE CampingLoop(done(st.tm, campingTime + 1, shrinkAccum), i + 1)
               ELSE LET t == DecayTimer(campingTime)
                    IN CampingLoop(done(st.tm, t,
                                        IF t <= CampingThresholdTicks THEN 0 ELSE shrinkAccum),
                                   i + 1)

\* ------------------------------------------------------------------------
\* Game.updateBoostPickups / Game.spawnBoostPickup
\* ------------------------------------------------------------------------
PickupPoints ==
  { << x, ArenaHeightPx \div 2 >> : x \in {PickupMargin, ArenaWidthPx - PickupMargin} }

MaxPickupsOf(diff) == IF diff = "impossible" THEN MaxBoostPickups * 3 ELSE MaxBoostPickups

PickupReach(p, pickup) ==
  DistSq(p.pos, pickup.pos) < (BoostPickupRadius + PlayerRadius) * (BoostPickupRadius + PlayerRadius)

CanCollect(id, p, pickup) ==
  p.alive /\ ~(pickup.playerOnly /\ id # Human) /\ PickupReach(p, pickup)

\* the player loop: a pickup goes to the first player in order that reaches it
Collectors(pickups) ==
  { id \in Agents : \E k \in pickups :
       /\ CanCollect(id, players[id], k)
       /\ \A j \in 1 .. (id - 1) : ~CanCollect(j, players[j], k) }

RECURSIVE ActivateAll(_, _)
ActivateAll(boost, ids) ==
  IF ids = {} THEN boost
  ELSE LET id == CHOOSE e \in ids : TRUE IN ActivateAll(ActivateBoost(boost, id), ids \ {id})


\* ------------------------------------------------------------------------
\* Construction: Game constructor, Game.createBots
\* ------------------------------------------------------------------------
BotSpawnChoices == { [pos |-> q, heading |-> d] : q \in BotSpawnPoints, d \in {"E", "W"} }

West == [pos |-> << SpawnMargin, ArenaHeightPx \div 2 >>, heading |-> "W"]
EastInbound == [pos |-> << ArenaWidthPx - SpawnMargin, ArenaHeightPx \div 2 >>, heading |-> "W"]
WestInbound == [pos |-> << SpawnMargin, ArenaHeightPx \div 2 >>, heading |-> "E"]

RECURSIVE CreateBots(_, _, _)
\* generateStartingTerritory for bot ids i .. NumBots + 1, in id order
CreateBots(g, spawns, i) ==
  IF i > NumBots + 1 THEN g
  ELSE CreateBots(GenerateStartingTerritory(g, spawns[i].pos, i, BotRadius), spawns, i + 1)

NewGameMap(spawns) ==
  CreateBots(GenerateStartingTerritory(NewTerritoryMap, HumanStart, Human, HumanRadius),
             spawns, 2)

NewGamePlayers(spawns) ==
  [a \in Agents |-> IF a = Human THEN NewPlayer(HumanStart, "E")
                    ELSE NewPlayer(spawns[a].pos, spawns[a].heading)]


\* ------------------------------------------------------------------------
\* Explored environments: how many input events, restarts, pickups and
\* exhausted drains a behaviour may contain, and where createBots puts bots
\* ------------------------------------------------------------------------
AllInbound == [b \in Bots |-> EastInbound]
Crossing == [b \in Bots |-> IF b = NumBots + 1 THEN EastInbound ELSE WestInbound]
LastInbound == [b \in Bots |-> IF b = NumBots + 1 THEN EastInbound ELSE West]

SteerOnly(ids, n) == [a \in Agents |-> IF a \in ids THEN n ELSE 0]

ProfileHuman ==
  [steer |-> SteerOnly({Human}, 3), restart |-> 0, pickup |-> 0, stall |-> 0,
   spawns |-> {AllInbound}]

ProfileBot ==
  [steer |-> SteerOnly({Human, NumBots + 1}, 1), restart |-> 0, pickup |-> 0, stall |-> 0,
   spawns |-> {LastInbound}]

ProfileRestart ==
  [steer |-> SteerOnly({Human}, 1), restart |-> 1, pickup |-> 0, stall |-> 1,
   spawns |-> {AllInbound, Crossing}]

ProfileBroad ==
  [steer |-> SteerOnly({2}, 1), restart |-> 0, pickup |-> 1, stall |-> 2,
   spawns |-> {AllInbound, Crossing, LastInbound}]

Profiles == {ProfileHuman, ProfileBot, ProfileRestart, ProfileBroad}

Init ==
  \E pr \in Profiles : \E spawns \in pr.spawns :
    /\ territoryMap = NewGameMap(spawns)
    /\ players = NewGamePlayers(spawns)
    /\ wasInOwnTerritory = [a \in Agents |-> TRUE]
    /\ captureQueue = << >>
    /\ campingTimers = << >>
    /\ shrinkAccumulators = << >>
    /\ boostEndTimes = << >>
    /\ decisionTimer = [b \in Bots |-> 0]
    /\ botAI = << >>
    /\ orphanCheckCounter = 0
    /\ gameOver = FALSE
    /\ isVictory = FALSE
    /\ difficulty = "easy"
    /\ now = 0
    /\ pc = "move"
    /\ cur = 1
    /\ boostPickups = {}
    /\ steerLeft = pr.steer
    /\ restartLeft = pr.restart
    /\ pickupLeft = pr.pickup
    /\ stallLeft = pr.stall
    /\ spawnSet = pr.spawns
    /\ hist = NewHist

\* ------------------------------------------------------------------------
\* Game.update, one action per step of the tick
\* ------------------------------------------------------------------------
\* update with the capture drain moved ahead of the collision pass
StepAfterDrainEarly(step) ==
  CASE step = "move" -> "wall"
    [] step = "wall" -> "tail"
    [] step = "tail" -> "pickup"
    [] step = "pickup" -> "drain"
    [] step = "drain" -> "collide"
    [] step = "collide" -> "orphan"
    [] step = "orphan" -> "camp"
    [] step = "camp" -> "end"
    [] OTHER -> "move"

\* the statements of update, in the order it runs them
StepAfter(step) ==
  CASE step = "move" -> "wall"
    [] step = "wall" -> "tail"
    [] step = "tail" -> "collide"
    [] step = "collide" -> "pickup"
    [] step = "pickup" -> "drain"
    [] step = "drain" -> "orphan"
    [] step = "orphan" -> "camp"
    [] step = "camp" -> "end"
    [] OTHER -> "move"

\* a heading change is an input event: a mouse move for the human, a new
\* target picked by BotAI.update when its decision timer runs out for a bot
CanSteer(a) ==
  /\ players[a].alive
  /\ steerLeft[a] > 0
  /\ a \in Bots => decisionTimer[a] + 1 >= DecisionTicks

\* updateBoost, processInput, player.update, bot.update + bot.player.update
MovePlayers ==
  /\ pc = "move"
  /\ now < MaxTicks
  /\ \E hd \in [Agents -> Dirs] :
       /\ \A a \in Agents : hd[a] # players[a].heading => CanSteer(a)
       /\ players' = [a \in Agents |-> PlayerUpdate(players[a], hd[a], StepOf(a))]
       /\ steerLeft' = [a \in Agents |-> IF hd[a] # players[a].heading
                                         THEN steerLeft[a] - 1 ELSE steerLeft[a]]
  /\ decisionTimer' = [b \in Bots |-> IF ~players[b].alive THEN decisionTimer[b]
                                      ELSE IF decisionTimer[b] + 1 >= DecisionTicks THEN 0
                                      ELSE decisionTimer[b] + 1]
  /\ boostEndTimes' = UpdateBoost(boostEndTimes)
  /\ UNCHANGED botAI
  /\ hist' = Logged(NewTickHist(hist))
  /\ pc' = StepAfter(pc)
  /\ UNCHANGED << territoryMap, wasInOwnTerritory, captureQueue, campingTimers,
                  shrinkAccumulators, orphanCheckCounter, gameOver, isVictory, difficulty,
                  now, cur, boostPickups, restartLeft, pickupLeft, stallLeft, spawnSet >>

CheckWallCollisions ==
  /\ pc = "wall"
  /\ \E w \in WallLoop(World, 1) : SetWorld(w)
  /\ pc' = StepAfter(pc)
  /\ cur' = 1
  /\ UNCHANGED << campingTimers, shrinkAccumulators, decisionTimer, botAI, orphanCheckCounter,
                  gameOver, isVictory, difficulty, now, boostPickups, steerLeft,
                  restartLeft, pickupLeft, stallLeft, spawnSet >>

\* one iteration of the loop over allPlayers around updateTailMechanicsForPlayer
UpdateTailMechanics ==
  /\ pc = "tail"
  /\ IF players[cur].alive
     THEN \E w \in { UpdateTailMechanicsForPlayer(World, cur, sp) : sp \in RespawnChoices } :
            SetWorld(w)
     ELSE /\ hist' = Logged(hist)
          /\ UNCHANGED << territoryMap, players, wasInOwnTerritory, captureQueue,
                          boostEndTimes >>
  /\ IF cur = NumBots + 1
     THEN pc' = StepAfter(pc) /\ cur' = 1
     ELSE pc' = pc /\ cur' = cur + 1
  /\ UNCHANGED << campingTimers, shrinkAccumulators, decisionTimer, botAI, orphanCheckCounter,
                  gameOver, isVictory, difficulty, now, boostPickups, steerLeft,
                  restartLeft, pickupLeft, stallLeft, spawnSet >>

CheckAllTailCollisions ==
  /\ pc = "collide"
  /\ SetWorld(CollisionLoop([World EXCEPT !.hist.killsBefore =
                                            [a \in Agents |-> players[a].kills],
                                          !.hist.passPlayers = players,
                                          !.hist.passBoost = boostEndTimes], 0))
  /\ pc' = StepAfter(pc)
  /\ UNCHANGED << campingTimers, shrinkAccumulators, decisionTimer, botAI, orphanCheckCounter,
                  gameOver, isVictory, difficulty, now, cur, boostPickups, steerLeft,
                  restartLeft, pickupLeft, stallLeft, spawnSet >>

UpdateBoostPickups ==
  /\ pc = "pickup"
  /\ \E spawned \in {{}} \cup
                    (IF pickupLeft > 0 /\ Cardinality(boostPickups) < MaxPickupsOf(difficulty)
                     THEN { {[pos |-> q, playerOnly |-> po]} :
                              q \in PickupPoints,
                              po \in IF difficulty = "impossible" THEN BOOLEAN ELSE {FALSE} }
                     ELSE {}) :
       LET present == boostPickups \cup spawned
       IN /\ pickupLeft' = IF spawned = {} THEN pickupLeft ELSE pickupLeft - 1
          /\ boostPickups' = { k \in present :
                                 \A id \in Agents : ~CanCollect(id, players[id], k) }
          /\ boostEndTimes' = ActivateAll(boostEndTimes, Collectors(present))
  /\ pc' = StepAfter(pc)
  /\ UNCHANGED << territoryMap, players, wasInOwnTerritory, captureQueue, campingTimers,
                  shrinkAccumulators, decisionTimer, botAI, orphanCheckCounter, gameOver,
                  isVictory, difficulty, now, cur, steerLeft, restartLeft, stallLeft,
                  spawnSet >>
  /\ hist' = Logged(hist)


\* the while loop runs k times before an elapsed-time reading exceeds the
\* budget (or the queue is empty); the reading precedes every shift
ProcessQueuedCaptures ==
  /\ pc = "drain"
  /\ \E k \in 0 .. Len(captureQueue) :
       /\ k < Len(captureQueue) => stallLeft > 0
       /\ stallLeft' = IF k < Len(captureQueue) THEN stallLeft - 1 ELSE stallLeft
       /\ SetWorld(ApplyJobs([World EXCEPT !.hist.queueBefore = captureQueue,
                                           !.hist.gridBefore = territoryMap,
                                           !.hist.drained = k], k))
  /\ pc' = StepAfter(pc)
  /\ UNCHANGED << campingTimers, shrinkAccumulators, decisionTimer, botAI, orphanCheckCounter,
                  gameOver, isVictory, difficulty, now, cur, boostPickups, steerLeft,
                  restartLeft, pickupLeft, spawnSet >>

CaptureOrphanedTiles ==
  /\ pc = "orphan"
  /\ IF orphanCheckCounter + 1 < OrphanCheckInterval
     THEN /\ orphanCheckCounter' = orphanCheckCounter + 1
          /\ UNCHANGED territoryMap
     ELSE /\ orphanCheckCounter' = 0
          /\ territoryMap' =
               IF CountOwnedTiles(territoryMap, Human) * 100 < 10 * GetTotalTiles
               THEN territoryMap
               ELSE OrphanLoop(territoryMap, 0)
  /\ pc' = StepAfter(pc)
  /\ UNCHANGED << players, wasInOwnTerritory, captureQueue, campingTimers,
                  shrinkAccumulators, boostEndTimes, decisionTimer, botAI, gameOver, isVictory,
                  difficulty, now, cur, boostPickups, steerLeft, restartLeft, pickupLeft,
                  stallLeft, spawnSet >>
  /\ hist' = Logged([hist EXCEPT !.sweepDue = (orphanCheckCounter' = 0),
                                 !.sweepBefore = territoryMap])

UpdateCampingMechanic ==
  /\ pc = "camp"
  /\ \E st \in CampingLoop([tm |-> territoryMap, timers |-> campingTimers,
                            accs |-> shrinkAccumulators], 1) :
       /\ territoryMap' = st.tm
       /\ campingTimers' = st.timers
       /\ shrinkAccumulators' = st.accs
  /\ pc' = StepAfter(pc)
  /\ UNCHANGED << players, wasInOwnTerritory, captureQueue, boostEndTimes, decisionTimer, botAI,
                  orphanCheckCounter, gameOver, isVictory, difficulty, now, cur,
                  boostPickups, steerLeft, restartLeft, pickupLeft, stallLeft, spawnSet >>
  /\ hist' = Logged(hist)

\* the last step of update; the clock moves on to the next tick
\* checkGameEndConditions without its early return when the match is over
CheckGameEndAgain ==
  /\ pc = "end"
  /\ IF ~players[Human].alive THEN gameOver' = TRUE /\ isVictory' = FALSE
     ELSE IF \A b \in Bots : ~players[b].alive THEN gameOver' = TRUE /\ isVictory' = TRUE
     ELSE UNCHANGED << gameOver, isVictory >>
  /\ now' = now + 1
  /\ pc' = StepAfter(pc)
  /\ UNCHANGED << territoryMap, players, wasInOwnTerritory, captureQueue, campingTimers,
                  shrinkAccumulators, boostEndTimes, decisionTimer, botAI, orphanCheckCounter,
                  difficulty, cur, boostPickups, steerLeft, restartLeft, pickupLeft,
                  stallLeft, spawnSet >>
  /\ hist' = Logged(hist)

CheckGameEndConditions ==
  /\ pc = "end"
  /\ IF gameOver THEN UNCHANGED << gameOver, isVictory >>
     ELSE IF ~players[Human].alive THEN gameOver' = TRUE /\ isVictory' = FALSE
     ELSE IF \A b \in Bots : ~players[b].alive THEN gameOver' = TRUE /\ isVictory' = TRUE
     ELSE UNCHANGED << gameOver, isVictory >>
  /\ now' = now + 1
  /\ pc' = StepAfter(pc)
  /\ UNCHANGED << territoryMap, players, wasInOwnTerritory, captureQueue, campingTimers,
                  shrinkAccumulators, boostEndTimes, decisionTimer, botAI, orphanCheckCounter,
                  difficulty, cur, boostPickups, steerLeft, restartLeft, pickupLeft,
                  stallLeft, spawnSet >>
  /\ hist' = Logged(hist)

\* ------------------------------------------------------------------------
\* Game.restartGame, reached from the key, touch and click handlers while
\* the game-over screen is up; the click handlers may pick a difficulty first
\* ------------------------------------------------------------------------
\* restartGame leaving the waiting jobs in the queue
DrainedOnRestart(queue) == queue

\* this.captureQueue = []
DiscardedOnRestart(queue) == << >>

RestartGame ==
  /\ pc = "move"
  /\ gameOver
  /\ restartLeft > 0
  /\ \E diff \in Difficulties : \E spawns \in spawnSet :
       /\ difficulty' = diff
       /\ territoryMap' = NewGameMap(spawns)
       /\ players' = NewGamePlayers(spawns)
  /\ gameOver' = FALSE
  /\ isVictory' = FALSE
  /\ campingTimers' = << >>
  /\ shrinkAccumulators' = << >>
  /\ wasInOwnTerritory' = [a \in Agents |-> TRUE]
  /\ captureQueue' = DiscardedOnRestart(captureQueue)
  /\ boostEndTimes' = << >>
  /\ boostPickups' = {}
  /\ decisionTimer' = [b \in Bots |-> 0]
  /\ UNCHANGED botAI
  /\ restartLeft' = restartLeft - 1
  /\ hist' = [NewHist EXCEPT !.serial = hist.serial, !.nApplied = hist.serial,
                            !.restartSerial = hist.serial,
                            !.enqueuedAt = hist.enqueuedAt,
                            !.discarded = hist.discarded + Len(captureQueue)]
  /\ UNCHANGED << orphanCheckCounter, now, pc, cur, steerLeft, pickupLeft, stallLeft,
                  spawnSet >>

Next ==
  \/ MovePlayers
  \/ CheckWallCollisions
  \/ UpdateTailMechanics
  \/ CheckAllTailCollisions
  \/ UpdateBoostPickups
  \/ ProcessQueuedCaptures
  \/ CaptureOrphanedTiles
  \/ UpdateCampingMechanic
  \/ CheckGameEndConditions
  \/ RestartGame

Spec == Init /\ [][Next]_vars


\* ------------------------------------------------------------------------
\* Captures in isolation: a grid holding one filled disk of an owner, and a
\* queued job whose trail leaves the disk, runs round a rectangle and returns
\* ------------------------------------------------------------------------
DiskCentres == { << 6, 2 >>, << 2, 1 >> }

Disk(c, r) ==
  { t \in (0 .. WidthTiles - 1) \X (0 .. HeightTiles - 1) :
      (t[1] - c[1]) * (t[1] - c[1]) + (t[2] - c[2]) * (t[2] - c[2]) <= r * r }

TileCentre(t) == << t[1] * TileSize + TileSize \div 2, t[2] * TileSize + TileSize \div 2 >>

\* the i-th tile, clockwise from the top-left corner, of a rectangle's perimeter
RectCell(x1, y1, x2, y2, i) ==
  LET w == x2 - x1
      h == y2 - y1
      j == i % (2 * (w + h))
  IN IF j < w THEN << x1 + j, y1 >>
     ELSE IF j < w + h THEN << x2, y1 + (j - w) >>
     ELSE IF j < 2 * w + h THEN << x2 - (j - w - h), y2 >>
     ELSE << x1, y2 - (j - 2 * w - h) >>

Rectangles ==
  { q \in (0 .. WidthTiles - 1) \X (0 .. HeightTiles - 1) \X
          (0 .. WidthTiles - 1) \X (0 .. HeightTiles - 1) :
      /\ q[1] < q[3] /\ q[3] - q[1] <= MaxLoopSide
      /\ q[2] < q[4] /\ q[4] - q[2] <= MaxLoopSide }

\* perimeter positions where the walk steps from a disk tile onto open ground
Exits(q, disk) ==
  { k \in 0 .. (2 * ((q[3] - q[1]) + (q[4] - q[2])) - 1) :
      /\ RectCell(q[1], q[2], q[3], q[4], k) \in disk
      /\ RectCell(q[1], q[2], q[3], q[4], k + 1) \notin disk }

\* the trail round rectangle q and the re-entry position: from the exit to
\* the next disk tile, clockwise or not, every point kept or only the first,
\* the corners and the last
LoopInput(q, disk, clockwise, everyPoint) ==
  LET len == 2 * ((q[3] - q[1]) + (q[4] - q[2]))
      k == CHOOSE e \in Exits(q, disk) : TRUE
      m == Cardinality({ i \in 0 .. (len - 1) : RectCell(q[1], q[2], q[3], q[4], i) \notin disk })
      walk == [j \in 1 .. m |-> IF clockwise
                               THEN RectCell(q[1], q[2], q[3], q[4], k + j)
                               ELSE RectCell(q[1], q[2], q[3], q[4], k + m + 1 - j)]
      corner(t) == t[1] \in {q[1], q[3]} /\ t[2] \in {q[2], q[4]}
      kept(t) == everyPoint \/ corner(t) \/ t = walk[1] \/ t = walk[m]
      tiles == SelectSeq(walk, kept)
  IN [tail |-> [j \in 1 .. Len(tiles) |-> TileCentre(tiles[j])],
      pos |-> TileCentre(IF clockwise THEN RectCell(q[1], q[2], q[3], q[4], k + m + 1)
                         ELSE RectCell(q[1], q[2], q[3], q[4], k))]

\* a unit square walked from the tile east of a disk tile d, closed by
\* stepping back onto d
UnitSquareInput(d, down) ==
  LET sy == IF down THEN 1 ELSE -1
      tiles == << << d[1] + 1, d[2] >>, << d[1] + 2, d[2] >>,
                  << d[1] + 2, d[2] + sy >>, << d[1] + 1, d[2] + sy >> >>
  IN [tail |-> [j \in 1 .. 4 |-> TileCentre(tiles[j])], pos |-> TileCentre(d)]

LoopInputs(disk) ==
  { LoopInput(q, disk, cw, ev) :
      q \in { r \in Rectangles : Cardinality(Exits(r, disk)) = 1 },
      cw \in BOOLEAN, ev \in BOOLEAN }
  \cup
  { UnitSquareInput(d, down) :
      d \in { e \in disk : \A dx \in {1, 2}, dy \in {-1, 0, 1} :
                              /\ IsValidTile(e[1] + dx, e[2] + dy)
                              /\ << e[1] + dx, e[2] + dy >> \notin disk },
      down \in BOOLEAN }

InitCapture ==
  \E owner \in {Human, 2}, c \in DiskCentres, r \in 0 .. MaxDiskRadius :
    \E in \in LoopInputs(Disk(c, r)) :
      /\ territoryMap = SetOwnerAll(NewTerritoryMap, Disk(c, r), owner)
      /\ players = [a \in Agents |-> IF a = owner
                                     THEN [NewPlayer(in.pos, "E") EXCEPT !.pos = in.pos]
                                     ELSE [NewPlayer(HumanStart, "E") EXCEPT !.alive = FALSE]]
      /\ wasInOwnTerritory = [a \in Agents |-> TRUE]
      /\ captureQueue = << [player |-> owner, tail |-> in.tail, serial |-> 1] >>
      /\ campingTimers = << >>
      /\ shrinkAccumulators = << >>
      /\ boostEndTimes = << >>
      /\ decisionTimer = [b \in Bots |-> 0]
      /\ botAI = << >>
      /\ orphanCheckCounter = 0
      /\ gameOver = FALSE
      /\ isVictory = FALSE
      /\ difficulty = "easy"
      /\ now = 0
      /\ pc = "drain"
      /\ cur = 1
      /\ boostPickups = {}
      /\ steerLeft = SteerOnly({}, 0)
      /\ restartLeft = 0
      /\ pickupLeft = 0
      /\ stallLeft = 0
      /\ spawnSet = {}
      /\ hist = [NewHist EXCEPT !.serial = 1, !.enqueuedAt = << in.pos >>]

NextCapture == ProcessQueuedCaptures

SpecCapture == InitCapture /\ [][NextCapture]_vars

\* ------------------------------------------------------------------------
\* TerritoryMap on its own: its methods called with arbitrary arguments on
\* maps a match can produce
\* ------------------------------------------------------------------------
\* owner ids a caller may pass: in range, neutral, negative, beyond 8 bits
OwnerInputs == {-1, 0, 1, 2, 3, MaxUint8, MaxUint8 + 1, MaxUint8 + 2}

\* tile coordinates a caller may pass, inside the grid and just outside it
ColumnInputs == {-1, 0, WidthTiles \div 2, WidthTiles - 1, WidthTiles}
RowInputs == {-1, 0, HeightTiles \div 2, HeightTiles - 1, HeightTiles}

MapInputs ==
  {NewTerritoryMap}
    \cup { NewGameMap(sp) : sp \in {AllInbound, Crossing, LastInbound} }
    \cup { TransferTerritory(NewGameMap(sp), Human, MaxUint8) : sp \in {Crossing, LastInbound} }

InitMap ==
  /\ territoryMap \in MapInputs
  /\ players = [a \in Agents |-> [NewPlayer(HumanStart, "E") EXCEPT !.alive = FALSE]]
  /\ wasInOwnTerritory = [a \in Agents |-> TRUE]
  /\ captureQueue = << >>
  /\ campingTimers = << >>
  /\ shrinkAccumulators = << >>
  /\ boostEndTimes = << >>
  /\ decisionTimer = [b \in Bots |-> 0]
  /\ botAI = << >>
  /\ orphanCheckCounter = 0
  /\ gameOver = FALSE
  /\ isVictory = FALSE
  /\ difficulty = "easy"
  /\ now = 0
  /\ pc = "map"
  /\ cur = 1
  /\ boostPickups = {}
  /\ steerLeft = SteerOnly({}, 0)
  /\ restartLeft = 0
  /\ pickupLeft = 0
  /\ stallLeft = 0
  /\ spawnSet = {}
  /\ hist = NewHist

MapCall(op, args, mid, after, ret) ==
  /\ pc = "map"
  /\ pc' = "mapped"
  /\ territoryMap' = after
  /\ hist' = [hist EXCEPT !.mapOp = op, !.mapArgs = args, !.mapBefore = territoryMap,
                          !.mapMid = mid, !.mapRet = ret]
  /\ UNCHANGED << players, wasInOwnTerritory, captureQueue, campingTimers,
                  shrinkAccumulators, boostEndTimes, decisionTimer, botAI, orphanCheckCounter,
                  gameOver, isVictory, difficulty, now, cur, boostPickups, steerLeft,
                  restartLeft, pickupLeft, stallLeft, spawnSet >>

\* getOwner(x, y), then setOwner(x, y, id) twice
SetOwnerTwice ==
  \E x \in ColumnInputs : \E y \in RowInputs : \E id \in OwnerInputs :
    LET mid == SetOwner(territoryMap, x, y, id)
    IN MapCall("setOwner", << x, y, id >>, mid, SetOwner(mid, x, y, id),
               GetOwner(territoryMap, x, y))

\* transferTerritory(a, b), then transferTerritory(b, a)
TransferRoundTrip ==
  \E a \in OwnerInputs : \E b \in OwnerInputs :
    LET mid == TransferTerritory(territoryMap, a, b)
    IN MapCall("roundTrip", << a, b >>, mid, TransferTerritory(mid, b, a), 0)

\* one bulk operation: transferTerritory(a, b) or clearOwnerTerritory(a)
BulkOperation ==
  \E a \in OwnerInputs :
    \/ \E b \in OwnerInputs :
         LET after == TransferTerritory(territoryMap, a, b)
         IN MapCall("transferTerritory", << a, b >>, after, after, 0)
    \/ LET after == ClearOwnerTerritory(territoryMap, a)
       IN MapCall("clearOwnerTerritory", << a >>, after, after, 0)

NextMap == SetOwnerTwice \/ TransferRoundTrip \/ BulkOperation

SpecMap == InitMap /\ [][NextMap]_vars

\* ------------------------------------------------------------------------
\* The orphan sweep in isolation: captureOrphanedTiles called on grids where
\* owner 1 holds a rectangle with neutral pockets in it, a bot holding a tile
\* or not, at every value of the throttle counter
\* ------------------------------------------------------------------------
\* << x1, y1, x2, y2 >>: a 3x3 block in the corner, the whole arena, a block
\* away from the edges, and two blocks smaller than a tenth of the arena
SweepRects ==
  { << 0, 0, 2, 2 >>, << 0, 0, WidthTiles - 1, HeightTiles - 1 >>, << 5, 1, 8, 3 >>,
    << 0, 0, 1, 1 >>, << WidthTiles - 2, HeightTiles - 2, WidthTiles - 1, HeightTiles - 1 >> }

RectTiles(r) == (r[1] .. r[3]) \X (r[2] .. r[4])

\* where the pockets may be: a corner, the tile diagonal to it, the tile next
\* to that one, and the opposite corner
PocketTiles(r) ==
  { << r[1], r[2] >>, << r[1] + 1, r[2] + 1 >>, << r[1] + 1, r[2] >>, << r[3], r[4] >> }

MaxPockets == 2

PocketSets(r) == { h \in SUBSET PocketTiles(r) : Cardinality(h) <= MaxPockets }

SweepInput(r, holes, botTiles) ==
  SetOwnerAll(SetOwnerAll(NewTerritoryMap, RectTiles(r) \ holes, Human), botTiles, 2)

SweepInputs ==
  UNION { UNION { { SweepInput(r, holes, {}), SweepInput(r, holes, {<< r[1], r[2] + 1 >>}) } :
                    holes \in PocketSets(r) } :
            r \in SweepRects }

InitSweep ==
  /\ territoryMap \in SweepInputs
  /\ orphanCheckCounter \in 0 .. (OrphanCheckInterval - 1)
  /\ players = [a \in Agents |-> [NewPlayer(HumanStart, "E") EXCEPT !.alive = FALSE]]
  /\ wasInOwnTerritory = [a \in Agents |-> TRUE]
  /\ captureQueue = << >>
  /\ campingTimers = << >>
  /\ shrinkAccumulators = << >>
  /\ boostEndTimes = << >>
  /\ decisionTimer = [b \in Bots |-> 0]
  /\ botAI = << >>
  /\ gameOver = FALSE
  /\ isVictory = FALSE
  /\ difficulty = "easy"
  /\ now = 0
  /\ pc = "orphan"
  /\ cur = 1
  /\ boostPickups = {}
  /\ steerLeft = SteerOnly({}, 0)
  /\ restartLeft = 0
  /\ pickupLeft = 0
  /\ stallLeft = 0
  /\ spawnSet = {}
  /\ hist = NewHist

NextSweep == CaptureOrphanedTiles

SpecSweep == InitSweep /\ [][NextSweep]_vars

\* ------------------------------------------------------------------------
\* The cross-agent collision pass in isolation: checkAllTailCollisions run on
\* rosters where agents draw straight trails or stand next to the oldest
\* points of other agents' trails, with kill counts and boosts of a match
\* that has been running for a while
\* ------------------------------------------------------------------------
MaxTrail == 4

PassTime == 5

\* the trail agent a draws: the primary agent westwards and the last bot
\* eastwards from the middle of the upper rows, the first bot along the
\* bottom row
TrailPoint(a, i) ==
  IF a = Human THEN << 26 - TailPointDistance * i, 6 >>
  ELSE IF a = NumBots + 1 THEN << 26 + TailPointDistance * i, 6 >>
  ELSE << 22 + TailPointDistance * i, 18 >>

TrailOf(a, n) == [i \in 1 .. n |-> TrailPoint(a, i)]

\* where an agent that is not drawing stands: between the oldest points of
\* the two upper trails, or above the oldest point of the bottom trail
StandPoints == { << 26, 6 >>, << 26, 14 >> }

\* kills an agent has made before the pass
KillInputs == {0, 1, 2, 5}

DrawingPlayer(a, n) ==
  [NewPlayer(TrailPoint(a, n), "E") EXCEPT !.tail = TrailOf(a, n), !.isDrawingTail = TRUE,
                                           !.lastTailPoint = TrailPoint(a, n), !.kills = 2]

PlayerInputs(a) ==
  { DrawingPlayer(a, n) : n \in (MaxTrail - 1) .. MaxTrail }
    \cup { [NewPlayer(q, "E") EXCEPT !.kills = k] : q \in StandPoints, k \in KillInputs }

\* no boost, one agent holding a boost that ends now or later, or one agent
\* of each kind
BoostInputs ==
  { << >> }
    \cup { (a :> e) : a \in Agents, e \in { PassTime, PassTime + BoostTicks - 1 } }
    \cup { (a :> PassTime) @@ (b :> PassTime + BoostTicks - 1) :
             a \in Agents, b \in Bots }

InitCollide ==
  /\ territoryMap = NewGameMap(Crossing)
  /\ players \in { ps \in [Agents -> UNION { PlayerInputs(a) : a \in Agents }] :
                     \A a \in Agents : ps[a] \in PlayerInputs(a) }
  /\ boostEndTimes \in BoostInputs
  /\ wasInOwnTerritory = [a \in Agents |-> FALSE]
  /\ captureQueue = << >>
  /\ campingTimers = << >>
  /\ shrinkAccumulators = << >>
  /\ decisionTimer = [b \in Bots |-> 0]
  /\ botAI = << >>
  /\ orphanCheckCounter = 0
  /\ gameOver = FALSE
  /\ isVictory = FALSE
  /\ difficulty = "easy"
  /\ now = PassTime
  /\ pc = "collide"
  /\ cur = 1
  /\ boostPickups = {}
  /\ steerLeft = SteerOnly({}, 0)
  /\ restartLeft = 0
  /\ pickupLeft = 0
  /\ stallLeft = 0
  /\ spawnSet = {}
  /\ hist = NewHist

NextCollide == CheckAllTailCollisions

SpecCollide == InitCollide /\ [][NextCollide]_vars

\* ------------------------------------------------------------------------
\* BotAI: one BotAI object is a record
\*   [state, target, targetPlayer, dangerLevel, aggression, caution,
\*    maxTailLength, expansionDistance, steer]
\* Lengths of BotAI are pixels of the shipped arena; a pixel of the arena
\* explored here counts PxScale of them, and square roots are rounded down
\* to a whole pixel. dangerLevel is in thousandths; aggression, caution and
\* the random draws are in hundredths. target is a point in BotAI pixels,
\* steer the vector handed to setTargetDirectionToward, targetPlayer an id
\* or 0 for null.
\* ------------------------------------------------------------------------
PxScale == 10

\* Math.sqrt(dx * dx + dy * dy) between two points given in BotAI pixels
BotDist(p, q) ==
  LET RECURSIVE SqrtBetween(_, _, _)
      SqrtBetween(n, lo, hi) ==
        IF lo >= hi THEN lo
        ELSE LET mid == (lo + hi + 1) \div 2
             IN IF mid * mid <= n THEN SqrtBetween(n, mid, hi)
                ELSE SqrtBetween(n, lo, mid - 1)
  IN SqrtBetween(DistSq(p, q), 0, 2 * PxScale * (ArenaWidthPx + ArenaHeightPx))

\* getDistanceToOurTail(enemy); Infinity is a length beyond every range
GetDistanceToOurTail(ps, b, enemy) ==
  IF ps[b].tail = << >> THEN 100 * PxScale * ArenaWidthPx
  ELSE LET ds == { BotDist(<< PxScale * ps[enemy].pos[1], PxScale * ps[enemy].pos[2] >>,
                           << PxScale * ps[b].tail[i][1], PxScale * ps[b].tail[i][2] >>) :
                     i \in 1 .. Len(ps[b].tail) }
       IN CHOOSE d \in ds : \A e \in ds : d <= e

\* assessSituation: the new dangerLevel
AssessSituation(ps, b) ==
  LET near(o) == LET d == GetDistanceToOurTail(ps, b, o)
                 IN IF ps[o].alive /\ o # b /\ d < 100
                    THEN ((100 - d) * 1000) \div 100 ELSE 0
      RECURSIVE fromEnemies(_)
      fromEnemies(o) == IF o > NumBots + 1 THEN 0 ELSE near(o) + fromEnemies(o + 1)
      x == PxScale * ps[b].pos[1]
      y == PxScale * ps[b].pos[2]
      atEdge == \/ x < 80 \/ x > PxScale * ArenaWidthPx - 80
                \/ y < 80 \/ y > PxScale * ArenaHeightPx - 80
  IN (IF Len(ps[b].tail) > 3 THEN fromEnemies(1) ELSE 0) + (IF atEdge THEN 300 ELSE 0)

\* findHarassTarget: the id of the target, 0 for null; scores are in tenths,
\* and of equal scores the first in allPlayers wins
FindHarassTarget(g, ps, b) ==
  LET at(q) == << PxScale * q[1], PxScale * q[2] >>
      score(other) ==
        LET o == ps[other]
            distToBase == BotDist(at(ps[b].pos), at(o.tail[1]))
            dist == BotDist(at(o.pos), at(ps[b].pos))
        IN (IF Len(o.tail) > 3
            THEN 400 + Len(o.tail) * 30
                   + (IF distToBase < 300 THEN (300 - distToBase) * 5 ELSE 0)
            ELSE 0)
           + (IF other = Human THEN 500 + (IF Len(o.tail) > 0 THEN 300 ELSE 0) ELSE 0)
           + Max(0, (600 - dist) * 2)
           + (CountOwnedTiles(g, other) * 3000) \div (WidthTiles * HeightTiles)
      cands == { o \in Agents : /\ ps[o].alive /\ o # b
                                /\ BotDist(at(ps[o].pos), at(ps[b].pos)) <= 600 }
      best == CHOOSE o \in cands :
                \A q \in cands : \/ score(o) > score(q)
                                 \/ (score(o) = score(q) /\ o <= q)
  IN IF cands = {} THEN 0
     ELSE IF score(best) > 250 THEN best ELSE 0

\* clampTargetToArena
ClampTargetToArena(t) ==
  << Max(40, Min(PxScale * ArenaWidthPx - 40, t[1])),
     Max(40, Min(PxScale * ArenaHeightPx - 40, t[2])) >>

\* the tiles getOwnedTiles samples (every 4th column and row), as the world
\* points tileToWorld gives
OwnedTilePoints(g, b) ==
  { << PxScale * (x * TileSize + TileSize \div 2), PxScale * (y * TileSize + TileSize \div 2) >> :
      << x, y >> \in { t \in (0 .. WidthTiles - 1) \X (0 .. HeightTiles - 1) :
                        t[1] % 4 = 0 /\ t[2] % 4 = 0 /\ GetOwner(g, t[1], t[2]) = b } }

\* pickReturnTarget: the closest sampled own tile (the first in scan order of
\* the closest ones), the middle of the arena if there is none
PickReturnTarget(g, ps, b) ==
  LET pts == OwnedTilePoints(g, b)
      pos == << PxScale * ps[b].pos[1], PxScale * ps[b].pos[2] >>
      earlier(u, v) == u[2] < v[2] \/ (u[2] = v[2] /\ u[1] <= v[1])
  IN IF pts = {} THEN << (PxScale * ArenaWidthPx) \div 2, (PxScale * ArenaHeightPx) \div 2 >>
     ELSE CHOOSE u \in pts :
            \A v \in pts : \/ DistSq(u, pos) < DistSq(v, pos)
                            \/ (DistSq(u, pos) = DistSq(v, pos) /\ earlier(u, v))

\* pickFleeTarget: every target it may set. The blend of the two angles is
\* explored as the eight compass directions (150 px away; 106 px on each
\* axis for a diagonal).
PickFleeTarget(g, ps, b) ==
  LET pos == << PxScale * ps[b].pos[1], PxScale * ps[b].pos[2] >>
      threat == ps[b].tail # << >> /\ \E o \in Agents : ps[o].alive /\ o # b
      offsets == { << 150, 0 >>, << 106, 106 >>, << 0, 150 >>, << -106, 106 >>,
                   << -150, 0 >>, << -106, -106 >>, << 0, -150 >>, << 106, -106 >> }
  IN IF threat
     THEN { ClampTargetToArena(<< pos[1] + d[1], pos[2] + d[2] >>) : d \in offsets }
     ELSE { ClampTargetToArena(PickReturnTarget(g, ps, b)) }

\* pickWanderTarget: every target it may set (a random sampled own tile, or a
\* random offset of up to 100 px on each axis)
PickWanderTarget(g, ps, b) ==
  LET pos == << PxScale * ps[b].pos[1], PxScale * ps[b].pos[2] >>
  IN IF OwnedTilePoints(g, b) # {} THEN OwnedTilePoints(g, b)
     ELSE { << pos[1] + dx, pos[2] + dy >> : dx \in {-100, 0, 99}, dy \in {-100, 0, 99} }

\* pickExpansionTarget: findBestExpansionDirection over eight directions (the
\* first of the best ones), then clampTargetToArena; scores are times 50
PickExpansionTarget(g, ps, b, ai) ==
  LET pos == << PxScale * ps[b].pos[1], PxScale * ps[b].pos[2] >>
      cosSin == << << 10000, 0 >>, << 7071, 7071 >>, << 0, 10000 >>, << -7071, 7071 >>,
                   << -10000, 0 >>, << -7071, -7071 >>, << 0, -10000 >>, << 7071, -7071 >> >>
      test(i) == << pos[1] + (cosSin[i][1] * ai.expansionDistance) \div 10000,
                    pos[2] + (cosSin[i][2] * ai.expansionDistance) \div 10000 >>
      tileOf(q) == << q[1] \div (PxScale * TileSize), q[2] \div (PxScale * TileSize) >>
      score(i) ==
        LET q == test(i)
            t == tileOf(q)
            owner == GetOwner(g, t[1], t[2])
            edgeDist == Min(Min(q[1], q[2]),
                            Min(PxScale * ArenaWidthPx - q[1], PxScale * ArenaHeightPx - q[2]))
        IN IF IsValidTile(t[1], t[2])
           THEN (IF owner = 0 THEN 500 ELSE IF owner # b THEN 750 ELSE -1000) + edgeDist
           ELSE -5000
      best == CHOOSE i \in 1 .. 8 :
                \A j \in 1 .. 8 : score(i) > score(j) \/ (score(i) = score(j) /\ i <= j)
  IN ClampTargetToArena(test(best))

\* pickHarassTarget with targetPlayer = tp; old is the target so far
PickHarassTarget(ps, tp, old) ==
  IF tp = 0 THEN old
  ELSE LET tail == ps[tp].tail
           n == Len(tail)
           targetIdx == IF n > 20 THEN (n * 15) \div 100
                        ELSE IF n > 10 THEN (n * 25) \div 100
                        ELSE (n * 35) \div 100
           tailPoint == tail[Min(targetIdx, n - 1) + 1]
       IN IF n = 0
          THEN << PxScale * ps[tp].pos[1] + DirVec(ps[tp].heading)[1] * 50,
                  PxScale * ps[tp].pos[2] + DirVec(ps[tp].heading)[2] * 50 >>
          ELSE << PxScale * tailPoint[1], PxScale * tailPoint[2] >>

\* avoidBoundaries applied to target t
AvoidBoundaries(ps, b, t) ==
  LET x == PxScale * ps[b].pos[1]
      y == PxScale * ps[b].pos[2]
      x1 == IF x < 60 /\ t[1] < x THEN x + 120 ELSE t[1]
      x2 == IF x > PxScale * ArenaWidthPx - 60 /\ x1 > x THEN x - 120 ELSE x1
      y1 == IF y < 60 /\ t[2] < y THEN y + 120 ELSE t[2]
      y2 == IF y > PxScale * ArenaHeightPx - 60 /\ y1 > y THEN y - 120 ELSE y1
  IN << x2, y2 >>

\* avoidOwnTail applied to target t: the first trail point (the newest four
\* left out) within 35 px of the point 60 px ahead turns the target to 100 px
\* straight away from that point
AvoidOwnTail(ps, b, t) ==
  LET at(q) == << PxScale * q[1], PxScale * q[2] >>
      pos == at(ps[b].pos)
      tail == ps[b].tail
      future == << pos[1] + DirVec(ps[b].heading)[1] * 60,
                   pos[2] + DirVec(ps[b].heading)[2] * 60 >>
      hits == { i \in 1 .. Len(tail) - 4 : BotDist(future, at(tail[i])) < 35 }
      first == CHOOSE i \in hits : \A j \in hits : i <= j
      d == << pos[1] - at(tail[first])[1], pos[2] - at(tail[first])[2] >>
      len == BotDist(pos, at(tail[first]))
      part(c) == IF c >= 0 THEN (100 * c) \div len ELSE 0 - ((100 * (0 - c)) \div len)
  IN IF Len(tail) < 5 \/ hits = {} THEN t
     ELSE IF len = 0 THEN ClampTargetToArena(<< pos[1] + 100, pos[2] >>)
     ELSE ClampTargetToArena(<< pos[1] + part(d[1]), pos[2] + part(d[2]) >>)

\* a bot that flees on high danger with any trail at all
ShouldFleeAnyTrail(dangerLevel, tailLength) == dangerLevel > 500 /\ tailLength > 0

\* this.dangerLevel > 0.5 && tailLength > 5
ShouldFlee(dangerLevel, tailLength) == dangerLevel > 500 /\ tailLength > 5

\* a bot that counts as back home wherever it is
IsHomeAnywhere(g, ps, b) == TRUE

\* isInOwnTerritory && tailLength === 0
IsHome(g, ps, b) == GetOwnerAtWorld(g, ps[b].pos) = b /\ Len(ps[b].tail) = 0

\* makeDecision on the BotAI object ai of bot b: every outcome, as
\* [ai, branch, chosen]; branch names the rule that selected the target and
\* chosen is the target that rule selected. Math.random() is explored as
\* 0, 0.5 and 0.99.
MakeDecision(g, ps, b, ai) ==
  LET draws == {0, 50, 99}
      pos == << PxScale * ps[b].pos[1], PxScale * ps[b].pos[2] >>
      isInOwnTerritory == GetOwnerAtWorld(g, ps[b].pos) = b
      tailLength == Len(ps[b].tail)
      \* tailThreshold = maxTailLength * caution, in hundredths
      tailThreshold == ai.maxTailLength * ai.caution
      home == IsHome(g, ps, b)
      isNearTarget == BotDist(ai.target, pos) < 30
      harassTarget == FindHarassTarget(g, ps, b)
      harassChance ==
        LET n == Len(ps[harassTarget].tail)
            c1 == IF n > 10 THEN Min(100, ai.aggression + 40)
                  ELSE IF n > 5 THEN Min(100, ai.aggression + 20)
                  ELSE ai.aggression
        IN IF harassTarget = Human /\ n > 0 THEN Min(100, c1 + 30) ELSE c1
      out(st, tp, t, br) ==
        [ai |-> [ai EXCEPT !.state = st, !.targetPlayer = tp, !.target = t],
         branch |-> br, chosen |-> t]
      \* the two safety checks at the end of makeDecision
      safe(st, tp, t) ==
        [ai |-> [ai EXCEPT !.state = st, !.targetPlayer = tp,
                           !.target = AvoidOwnTail(ps, b, AvoidBoundaries(ps, b, t))],
         branch |-> "table", chosen |-> t]
      toExpand == safe("expand", ai.targetPlayer, PickExpansionTarget(g, ps, b, ai))
      toRetreat == safe("retreat", ai.targetPlayer, PickReturnTarget(g, ps, b))
      toWander == { safe("wander", ai.targetPlayer, t) : t \in PickWanderTarget(g, ps, b) }
      stay == safe(ai.state, ai.targetPlayer, ai.target)
      table ==
        IF ai.state = "wander"
        THEN IF home THEN UNION { IF r < 60 THEN {toExpand} ELSE toWander : r \in draws }
             ELSE IF ~isInOwnTerritory THEN {toRetreat}
             ELSE {stay}
        ELSE IF ai.state = "expand"
        THEN IF home
             THEN UNION { IF r < 70 THEN {toExpand} ELSE toWander : r \in draws }
             ELSE IF isNearTarget
             THEN { IF r < 50 /\ tailLength * 1000 < tailThreshold * 7
                    THEN toExpand ELSE toRetreat : r \in draws }
             ELSE {stay}
        ELSE IF ai.state = "harass"
        THEN IF home
             THEN { IF harassTarget # 0 /\ r * 2 < ai.aggression * 3
                    THEN safe("harass", harassTarget,
                              PickHarassTarget(ps, harassTarget, ai.target))
                    ELSE toExpand : r \in draws }
             ELSE IF ai.targetPlayer # 0 /\ ~ps[ai.targetPlayer].alive THEN {toRetreat}
             ELSE IF isNearTarget \/ tailLength * 1000 > tailThreshold * 8 THEN {toRetreat}
             ELSE {stay}
        ELSE IF ai.state = "retreat"
        THEN IF home THEN toWander
             ELSE IF ~isInOwnTerritory THEN {toRetreat}
             ELSE {stay}
        ELSE IF home THEN toWander
             ELSE IF ai.dangerLevel < 300 THEN {toRetreat}
             ELSE { safe("flee", ai.targetPlayer, t) : t \in PickFleeTarget(g, ps, b) }
  IN IF ShouldFlee(ai.dangerLevel, tailLength)
     THEN { out("flee", ai.targetPlayer, t, "flee") : t \in PickFleeTarget(g, ps, b) }
     ELSE IF tailLength * 100 > tailThreshold
     THEN { out("retreat", ai.targetPlayer, PickReturnTarget(g, ps, b), "retreat") }
     ELSE IF harassTarget = 0 THEN table
     ELSE UNION { IF r < harassChance
                  THEN { out("harass", harassTarget,
                             PickHarassTarget(ps, harassTarget, ai.target), "harass") }
                  ELSE table : r \in draws }

\* BotAI.update(dt) of bot b, called from Game.update for a live bot: the
\* decision timer runs, a due decision is made (assessSituation, then
\* makeDecision), and the player is steered toward the target
BotUpdate ==
  /\ pc = "bot"
  /\ \E b \in DOMAIN botAI :
       /\ players[b].alive
       /\ LET due == decisionTimer[b] + 1 >= DecisionTicks
              assessed == [botAI[b] EXCEPT !.dangerLevel = AssessSituation(players, b)]
              steered(ai) == [ai EXCEPT !.steer = << ai.target[1] - PxScale * players[b].pos[1],
                                                     ai.target[2] - PxScale * players[b].pos[2] >>]
          IN /\ decisionTimer' = [decisionTimer EXCEPT ![b] = IF due THEN 0 ELSE @ + 1]
             /\ IF due
                THEN \E o \in MakeDecision(territoryMap, players, b, assessed) :
                       /\ botAI' = [botAI EXCEPT ![b] = steered(o.ai)]
                       /\ hist' = [hist EXCEPT !.botBranch = o.branch, !.botChosen = o.chosen,
                                               !.botBefore = assessed]
                ELSE /\ botAI' = [botAI EXCEPT ![b] = steered(botAI[b])]
                     /\ hist' = [hist EXCEPT !.botBranch = "", !.botChosen = << >>,
                                             !.botBefore = << >>]
  /\ UNCHANGED << territoryMap, players, wasInOwnTerritory, captureQueue, campingTimers,
                  shrinkAccumulators, boostEndTimes, orphanCheckCounter, gameOver, isVictory,
                  difficulty, now, pc, cur, boostPickups, steerLeft, restartLeft, pickupLeft,
                  stallLeft, spawnSet >>

\* ------------------------------------------------------------------------
\* One bot deciding: the first bot with its BotAI object, in situations of a
\* match: at home or out drawing, near an edge or not, with the other agents
\* alive or dead, next to its trail or far from it
\* ------------------------------------------------------------------------
Decider == Human + 1

\* homes: where the deciding bot's territory lies, in the corner or at the
\*   west spawn
\* trails(h): the trails it may have drawn from home h, oldest point first:
\*   along the middle row, round a turn that ends next to its oldest point,
\*   along the top edge, or out and back to the west edge
\* humans: the primary agent at its start, dead, or drawing along the bottom row
\* otherBots: the other bots at the east spawn, alive or dead
\* ais(pos): the BotAI object in every state, its target where it stands or
\*   in the middle of the arena, with personalities at both ends of the range
InitBot ==
  LET homes == { << 2, 2 >>, West.pos }
      trails(h) ==
        IF h = West.pos
        THEN { [i \in 1 .. n |-> << 12 + TailPointDistance * (i - 1), 10 >>] :
                 n \in {0, 1, 4, 5, 6, 7} }
               \cup { << << 14, 10 >>, << 18, 10 >>, << 20, 14 >>, << 16, 16 >>, << 12, 14 >> >> }
        ELSE { [i \in 1 .. n |-> << 8 + TailPointDistance * (i - 1), 5 >>] :
                 n \in {0, 1, 4, 5, 6, 7} }
               \cup { << << 12, 6 >>, << 16, 6 >>, << 20, 6 >>, << 20, 10 >>,
                         << 16, 10 >>, << 12, 10 >>, << 8, 10 >>, << 4, 10 >> >> }
      drawingAt(trail, home, hd) ==
        IF trail = << >> THEN NewPlayer(home, hd)
        ELSE [NewPlayer(trail[Len(trail)], hd) EXCEPT !.tail = trail, !.isDrawingTail = TRUE,
                                                       !.lastTailPoint = trail[Len(trail)]]
      humans ==
        { NewPlayer(HumanStart, "E"), [NewPlayer(HumanStart, "E") EXCEPT !.alive = FALSE] }
          \cup { drawingAt([i \in 1 .. n |-> << 30 - TailPointDistance * (i - 1), 18 >>],
                            HumanStart, "W") : n \in {4, 6} }
      otherBots ==
        { NewPlayer(EastInbound.pos, "W"),
          [NewPlayer(EastInbound.pos, "W") EXCEPT !.alive = FALSE] }
      ais(pos) ==
        { [state |-> st, target |-> t, targetPlayer |-> tp, dangerLevel |-> 0,
           aggression |-> ag, caution |-> ca, maxTailLength |-> 20,
           expansionDistance |-> 100, steer |-> << 0, 0 >>] :
            st \in {"wander", "expand", "harass", "retreat", "flee"},
            t \in { << PxScale * pos[1], PxScale * pos[2] >>,
                     << (PxScale * ArenaWidthPx) \div 2, (PxScale * ArenaHeightPx) \div 2 >> },
            tp \in {0, Human}, ag \in {50, 100}, ca \in {25, 60} }
      RECURSIVE blobs(_, _, _)
      blobs(g, home, i) ==
        IF i > NumBots + 1 THEN g
        ELSE blobs(GenerateStartingTerritory(g, IF i = Decider THEN home ELSE EastInbound.pos,
                                             i, BotRadius), home, i + 1)
  IN
  /\ \E home \in homes :
       /\ territoryMap = blobs(GenerateStartingTerritory(NewTerritoryMap, HumanStart,
                                                         Human, HumanRadius), home, 2)
       /\ \E trail \in trails(home), hd \in {"E", "W", "N"}, hu \in humans :
            \E others \in [Bots \ {Decider} -> otherBots] :
              players = [a \in Agents |-> IF a = Human THEN hu
                                          ELSE IF a = Decider THEN drawingAt(trail, home, hd)
                                          ELSE others[a]]
  /\ botAI \in { (Decider :> ai) : ai \in ais(players[Decider].pos) }
  /\ decisionTimer = [b \in Bots |-> DecisionTicks - 1]
  /\ wasInOwnTerritory = [a \in Agents |-> players[a].tail = << >>]
  /\ captureQueue = << >>
  /\ campingTimers = << >>
  /\ shrinkAccumulators = << >>
  /\ boostEndTimes = << >>
  /\ orphanCheckCounter = 0
  /\ gameOver = FALSE
  /\ isVictory = FALSE
  /\ difficulty = "easy"
  /\ now = 0
  /\ pc = "bot"
  /\ cur = 1
  /\ boostPickups = {}
  /\ steerLeft = SteerOnly({}, 0)
  /\ restartLeft = 0
  /\ pickupLeft = 0
  /\ stallLeft = 0
  /\ spawnSet = {}
  /\ hist = NewHist

SpecBot == InitBot /\ [][BotUpdate]_vars

\* ========================================================================
\* Properties
\* ========================================================================
TilesOf(ownerMap, id) == { i \in TileIdx : ownerMap[i] = id }

RECURSIVE SumCounts(_, _)
SumCounts(counts, ids) ==
  IF ids = {} THEN 0
  ELSE LET id == CHOOSE e \in ids : TRUE IN counts[id] + SumCounts(counts, ids \ {id})

\* C1: at the end of every tick the cached count of every owner id >= 1
\* equals the number of grid tiles it owns, and the counts sum to at most the
\* number of tiles.
CacheCorrect ==
  pc = "move" =>
    /\ \A id \in Agents \cup (DOMAIN territoryMap.tileCounts \ {0}) :
         CountOwnedTiles(territoryMap, id) = Cardinality(OwnedTiles(territoryMap, id))
    /\ SumCounts(territoryMap.tileCounts, DOMAIN territoryMap.tileCounts) <= GetTotalTiles

\* a tick ends after a kill handed territory over and a capture was applied
CacheCorrectWitness ==
  /\ pc = "move"
  /\ hist.applied # << >>
  /\ hist.killLog # << >>
  /\ CountOwnedTiles(territoryMap, Human) > Cardinality(TilesOf(NewGameMap(AllInbound).ownerMap, Human))

KillsCredited(a) == Cardinality({ i \in DOMAIN hist.killLog : hist.killLog[i].attacker = a })

\* what the pass owes a pair << attacker, victim >>
PairResolved(pair) ==
  /\ ~players[pair[2]].alive
  /\ { i \in DOMAIN hist.killLog : hist.killLog[i].victim = pair[2] } # {}
  /\ \A i, j \in DOMAIN hist.killLog :
       hist.killLog[i].victim = pair[2] /\ hist.killLog[j].victim = pair[2] => i = j
  /\ \A a \in Agents : players[a].kills = hist.killsBefore[a] + KillsCredited(a)
  /\ OwnedTiles(territoryMap, pair[2]) = {}
  /\ CountOwnedTiles(territoryMap, pair[2]) = 0

FreshBlob(pos, radius) ==
  LET c == WorldToTile(pos)
  IN { (c[2] + dy) * WidthTiles + (c[1] + dx) : << dx, dy >> \in
         { d \in ((0 - radius) .. radius) \X ((0 - radius) .. radius) :
             /\ InStartingBlob(d[1], d[2], radius)
             /\ IsValidTile(c[1] + d[1], c[2] + d[2]) } }

\* the killer ends up with the victim's tiles and its own, the victim with none
Inherited(d) ==
  /\ TilesOf(d.after, d.killer) = TilesOf(d.before, d.killer) \cup TilesOf(d.before, d.victim)
  /\ TilesOf(d.after, d.victim) = {}

\* the victim's tiles are neutral and the killer's tile set is as before
ClearedNotInherited(d) ==
  /\ \A t \in TilesOf(d.before, d.victim) : d.after[t] = 0
  /\ TilesOf(d.after, d.victim) = {}
  /\ TilesOf(d.after, d.killer) = TilesOf(d.before, d.killer)

\* no killer: every former tile is neutral, or lies in the blob regenerated
\* for the respawned agent; none went to another agent
ClearedNoKiller(d) ==
  \A t \in TilesOf(d.before, d.victim) :
    \/ d.after[t] = 0
    \/ /\ d.after[t] = d.victim
       /\ d.victim # Human
       /\ t \in FreshBlob(d.player.pos, RespawnRadius)

\* C5 (as stated): a death with a killer hands the victim's tiles to the
\* killer; in the no-inheritance mode, for any killer, they become neutral and
\* the killer's tiles are unchanged; a death with no killer leaves the tiles
\* neutral and gives none to another agent.
DeathResolutionAnyKiller ==
  \A i \in DOMAIN hist.deaths :
    LET d == hist.deaths[i]
    IN IF d.killer = 0 THEN ClearedNoKiller(d)
       ELSE IF d.mode = "impossible" THEN ClearedNotInherited(d)
       ELSE Inherited(d)

\* C5 (amended): the no-inheritance mode clears the victim's tiles only when
\* the killer is the primary agent; any other killer inherits them in that
\* mode too.
DeathResolution ==
  \A i \in DOMAIN hist.deaths :
    LET d == hist.deaths[i]
    IN IF d.killer = 0 THEN ClearedNoKiller(d)
       ELSE IF d.mode = "impossible" /\ d.killer = Human THEN ClearedNotInherited(d)
       ELSE Inherited(d)

\* a bot kills in the no-inheritance mode and takes over tiles
DeathResolutionWitness ==
  \E i \in DOMAIN hist.deaths :
    /\ hist.deaths[i].mode = "impossible"
    /\ hist.deaths[i].killer \in Bots
    /\ TilesOf(hist.deaths[i].before, hist.deaths[i].victim) # {}

\* C6 (as stated): when the primary agent died with no killer in a tick, that
\* tick ends with the match over, the outcome defeat, and the primary agent
\* still dead.
PrimaryDeathEndsMatch ==
  (pc = "move" /\ \E i \in DOMAIN hist.deaths :
                     hist.deaths[i].victim = Human /\ hist.deaths[i].killer = 0)
    => gameOver /\ ~isVictory /\ ~players[Human].alive

\* C7: when the death resolution of a bot that died with no killer returns,
\* the bot is alive, has an empty trail, is not drawing, stands on a tile it
\* owns, and owns exactly the starting blob around its new position.
BotRespawn ==
  \A i \in DOMAIN hist.deaths :
    LET d == hist.deaths[i]
    IN (d.killer = 0 /\ d.victim # Human) =>
         /\ d.player.alive
         /\ d.player.tail = << >>
         /\ ~d.player.isDrawingTail
         /\ d.after[WorldToTile(d.player.pos)[2] * WidthTiles + WorldToTile(d.player.pos)[1]]
              = d.victim
         /\ TilesOf(d.after, d.victim) = FreshBlob(d.player.pos, RespawnRadius)

\* a bot that owned tiles away from its respawn blob ran into its own trail
BotRespawnWitness ==
  \E i \in DOMAIN hist.deaths :
    LET d == hist.deaths[i]
    IN /\ d.killer = 0
       /\ d.victim \in Bots
       /\ TilesOf(d.before, d.victim) \ FreshBlob(d.player.pos, RespawnRadius) # {}


\* the agent of the running trail-update step re-enters its territory: it was
\* outside at its previous trail update, stands on its own tile and has a trail
Reentering ==
  /\ pc = "tail"
  /\ players[cur].alive
  /\ ~(IF cur \in DOMAIN wasInOwnTerritory THEN wasInOwnTerritory[cur] ELSE TRUE)
  /\ GetOwnerAtWorld(territoryMap, players[cur].pos) = cur
  /\ Len(players[cur].tail) > 0

\* C8: a re-entering agent's trail-update step appends exactly one job holding
\* a copy of its trail, clears the live trail and changes no grid tile; no
\* other step appends a job.
DeferredCapture ==
  [][IF Reentering
     THEN /\ Len(captureQueue') = Len(captureQueue) + 1
          /\ SubSeq(captureQueue', 1, Len(captureQueue)) = captureQueue
          /\ captureQueue'[Len(captureQueue')].player = cur
          /\ captureQueue'[Len(captureQueue')].tail = players[cur].tail
          /\ players'[cur].tail = << >>
          /\ ~players'[cur].isDrawingTail
          /\ territoryMap' = territoryMap
     ELSE /\ Len(captureQueue') <= Len(captureQueue)
          /\ hist'.serial = hist.serial]_vars

\* a trail-update step has just queued a trail long enough to enclose tiles
DeferredCaptureWitness ==
  /\ pc \in {"tail", "collide"}
  /\ hist.queueBefore = << >>
  /\ captureQueue # << >>
  /\ Len(captureQueue[Len(captureQueue)].tail) >= 3
  /\ players[captureQueue[Len(captureQueue)].player].tail = << >>

RECURSIVE WholeJobs(_, _, _)
\* the grid after the first k jobs of q were each applied in full, in order
WholeJobs(g, q, k) ==
  IF k = 0 THEN g
  ELSE WholeJobs(CaptureTerritoryFromTail(g, q[1].player, players[q[1].player].pos, q[1].tail),
                 Tail(q), k - 1)

\* C9: a drain applies the jobs at the head of the queue in the order they
\* were enqueued, each in full, and leaves the rest in the queue in unchanged
\* order.
FifoDrain ==
  pc = "orphan" =>
    LET q0 == hist.queueBefore
        k == hist.drained
    IN /\ \A i \in 1 .. (Len(q0) - 1) : q0[i].serial < q0[i + 1].serial
       /\ hist.applied = [i \in 1 .. k |-> q0[i].serial]
       /\ captureQueue = SubSeq(q0, k + 1, Len(q0))
       /\ territoryMap = WholeJobs(hist.gridBefore, q0, k)

\* a drain ran out of budget after applying a job and left another queued
FifoDrainWitness ==
  /\ pc = "orphan"
  /\ hist.drained >= 1
  /\ captureQueue # << >>
  /\ territoryMap # hist.gridBefore

\* C10 (as stated): every drain that starts with a non-empty queue applies at
\* least one job, whatever the elapsed-time readings are.
DrainProgress ==
  (pc = "orphan" /\ hist.queueBefore # << >>) => hist.drained >= 1


\* ------------------------------------------------------------------------
\* Geometry of a loop, stated without the capture algorithm
\* ------------------------------------------------------------------------
Idx(t) == t[2] * WidthTiles + t[1]

\* tiles on the straight segment between tiles a and b (axis-parallel or diagonal)
ThinSegment(a, b) ==
  { c \in (Min(a[1], b[1]) .. Max(a[1], b[1])) \X (Min(a[2], b[2]) .. Max(a[2], b[2])) :
      (c[1] - a[1]) * (b[2] - a[2]) = (c[2] - a[2]) * (b[1] - a[1]) }

\* tiles the loop passes through: the trail from point to point, then on to
\* the re-entry position
LoopTiles(pos, tail) ==
  LET tt == TailTiles(pos, tail)
  IN UNION { ThinSegment(tt[i], tt[i + 1]) : i \in 1 .. (Len(tt) - 1) }

RECURSIVE Reach(_, _, _)
\* tiles reachable by 4-neighbour steps from the frontier, blocked ones barred,
\* on the arena widened by a ring of one tile
Reach(frontier, seen, blocked) ==
  LET next == { n \in UNION { { << c[1] - 1, c[2] >>, << c[1] + 1, c[2] >>,
                                 << c[1], c[2] - 1 >>, << c[1], c[2] + 1 >> } : c \in frontier } :
                  /\ n[1] >= -1 /\ n[1] <= WidthTiles /\ n[2] >= -1 /\ n[2] <= HeightTiles
                  /\ n \notin blocked /\ n \notin seen }
  IN IF frontier = {} THEN seen ELSE Reach(next, seen \cup next, blocked)

\* tiles strictly inside: cut off from the surroundings of the arena by blocked tiles
StrictlyInside(blocked) ==
  LET ring == { c \in (-1 .. WidthTiles) \X (-1 .. HeightTiles) : ~IsValidTile(c[1], c[2]) }
      open == Reach(ring, ring, blocked)
  IN { t \in (0 .. WidthTiles - 1) \X (0 .. HeightTiles - 1) : t \notin open /\ t \notin blocked }

\* tiles at most n tiles outside the bounding box of a set of tiles
WithinBox(t, tiles, n) ==
  /\ \E u \in tiles : u[1] - n <= t[1]
  /\ \E u \in tiles : u[1] + n >= t[1]
  /\ \E u \in tiles : u[2] - n <= t[2]
  /\ \E u \in tiles : u[2] + n >= t[2]

\* tiles of the arena within one tile, diagonals included, of a set of tiles
Grown(tiles) ==
  { t \in (0 .. WidthTiles - 1) \X (0 .. HeightTiles - 1) :
      \E u \in tiles : Abs(t[1] - u[1]) <= 1 /\ Abs(t[2] - u[2]) <= 1 }

\* the job of the drain just run, with the loop it describes
DrainedJob == hist.queueBefore[1]
DrainedOwner == DrainedJob.player
DrainedLoop == LoopTiles(players[DrainedOwner].pos, DrainedJob.tail)
OwnedBefore == { t \in (0 .. WidthTiles - 1) \X (0 .. HeightTiles - 1) :
                   hist.gridBefore.ownerMap[Idx(t)] = DrainedOwner }
DrainedInside == StrictlyInside(DrainedLoop \cup OwnedBefore)
Changed == { t \in (0 .. WidthTiles - 1) \X (0 .. HeightTiles - 1) :
               territoryMap.ownerMap[Idx(t)] # hist.gridBefore.ownerMap[Idx(t)] }
CaptureDone == pc = "orphan" /\ hist.drained = 1

\* C2 (as stated): after the capture every tile strictly inside the loop and
\* every loop tile is owned by the owner, and no tile outside the loop's
\* bounding box has changed.
CaptureCorrectAsStated ==
  CaptureDone =>
    /\ \A t \in DrainedInside \cup DrainedLoop :
         territoryMap.ownerMap[Idx(t)] = DrainedOwner
    /\ \A t \in Changed : WithinBox(t, DrainedLoop, 0)

\* C2 (amended): that holds for a trail of at least 3 points (a shorter trail
\* changes nothing), and the tiles that change lie at most one tile outside
\* the loop's bounding box.
CaptureCorrect ==
  CaptureDone =>
    /\ Len(DrainedJob.tail) >= 3 =>
         \A t \in DrainedInside \cup DrainedLoop :
           territoryMap.ownerMap[Idx(t)] = DrainedOwner
    /\ Len(DrainedJob.tail) < 3 => Changed = {}
    /\ \A t \in Changed : WithinBox(t, DrainedLoop, 1)

\* a loop that encloses tiles was captured and a tile outside its bounding box changed
CaptureCorrectWitness ==
  /\ CaptureDone
  /\ DrainedInside # {}
  /\ \E t \in Changed : ~WithinBox(t, DrainedLoop, 0)

\* the trail is the four corners of an axis-parallel square, in walking order
SquareTrail ==
  LET tt == TailTiles(players[DrainedOwner].pos, DrainedJob.tail)
      v(i) == << tt[i + 1][1] - tt[i][1], tt[i + 1][2] - tt[i][2] >>
  IN /\ Len(DrainedJob.tail) = 4
     /\ (v(1)[1] = 0) # (v(1)[2] = 0)
     /\ v(2)[1] * v(1)[1] + v(2)[2] * v(1)[2] = 0
     /\ Abs(v(2)[1]) + Abs(v(2)[2]) = Abs(v(1)[1]) + Abs(v(1)[2])
     /\ v(3) = << 0 - v(1)[1], 0 - v(1)[2] >>

RestartStep == restartLeft' < restartLeft

RestartDiscardsQueue ==
  /\ [][RestartStep => captureQueue' = << >>]_vars
  /\ [](/\ \A i \in 1 .. Len(captureQueue) : captureQueue[i].serial > hist.restartSerial
        /\ \A i \in 1 .. Len(hist.applied) : hist.applied[i] > hist.restartSerial)

\* after a restart that threw away a waiting job, a job of the new match
\* has been applied
RestartDiscardsQueueWitness ==
  /\ hist.discarded > 0
  /\ Len(hist.applied) > 0


\* ------------------------------------------------------------------------
\* C12: within every tick the steps run in one fixed order: motion, wall
\* check, trail update per agent in list order, cross-agent collisions,
\* capture-queue drain, orphan sweep, shrink update, end-condition check; no
\* captured tile is written before the collision pass of the tick is over,
\* and the end-condition check runs last, on the alive flags as they then are
\* ------------------------------------------------------------------------
ClaimedOrder ==
  << "move", "wall" >> \o [i \in 1 .. (NumBots + 1) |-> "tail"]
     \o << "collide", "drain", "orphan", "camp", "end" >>

IsClaimedStep(step) == \E i \in 1 .. Len(ClaimedOrder) : ClaimedOrder[i] = step

StepsRun == SelectSeq(hist.steps, IsClaimedStep)

FixedStepOrder ==
  /\ [](/\ Len(StepsRun) <= Len(ClaimedOrder)
        /\ StepsRun = SubSeq(ClaimedOrder, 1, Len(StepsRun))
        /\ Len(hist.applied) > 0 => \E i \in 1 .. Len(hist.steps) : hist.steps[i] = "collide")
  /\ [][(gameOver' # gameOver \/ isVictory' # isVictory) /\ ~RestartStep
          => /\ StepsRun = SubSeq(ClaimedOrder, 1, Len(ClaimedOrder) - 1)
             /\ players' = players /\ territoryMap' = territoryMap
             /\ gameOver' /\ isVictory' = players[Human].alive]_vars

\* a whole tick has run in which the collision pass made a kill and the
\* drain then applied a job
FixedStepOrderWitness ==
  /\ StepsRun = ClaimedOrder
  /\ Len(hist.applied) > 0
  /\ Len(hist.killLog) > 0


\* ------------------------------------------------------------------------
\* Simultaneous potential kills (checkAllTailCollisions)
\* ------------------------------------------------------------------------
\* as the pass starts, a could kill v: both alive, v not immune, a within the
\* collision radius of a point of v's trail other than the two newest
CouldKill(a, v) ==
  LET att == hist.passPlayers[a]
      vic == hist.passPlayers[v]
  IN /\ a # v /\ att.alive /\ vic.alive
     /\ ~IsPlayerBoosted(hist.passBoost, v)
     /\ Len(vic.tail) >= MinVictimTail
     /\ \E i \in 1 .. (Len(vic.tail) - VictimHeadPoints) :
          25 * DistSq(att.pos, vic.tail[i]) < 16 * PlayerRadius * PlayerRadius

Killed(a, v) ==
  \E i \in DOMAIN hist.killLog : hist.killLog[i] = [attacker |-> a, victim |-> v]

TookTerritory(a, v) ==
  \E i \in DOMAIN hist.deaths :
    /\ hist.deaths[i].victim = v
    /\ hist.deaths[i].killer = a
    /\ Inherited(hist.deaths[i])

\* C13 (as stated): when two attackers could both kill one victim in a pass,
\* only the one earlier in the agent list gets the kill and the territory;
\* when two agents could each kill the other, the earlier one kills the
\* other and survives, and the later one credits no kill in that pass.
FirstAttackerWinsAsStated ==
  pc = "pickup" =>
    /\ \A v \in Agents : \A a1, a2 \in Agents :
         a1 < a2 /\ CouldKill(a1, v) /\ CouldKill(a2, v)
           => Killed(a1, v) /\ ~Killed(a2, v) /\ TookTerritory(a1, v)
    /\ \A a, b \in Agents :
         a < b /\ CouldKill(a, b) /\ CouldKill(b, a)
           => Killed(a, b) /\ players[a].alive /\ KillsCredited(b) = 0

\* no agent ahead of a in the list makes a kill in this pass that involves a
\* or v (kills either of them, or is a kill by v)
Undisturbed(a, v) ==
  \A i \in DOMAIN hist.killLog :
    hist.killLog[i].attacker < a
      => hist.killLog[i].victim \notin {a, v} /\ hist.killLog[i].attacker # v

\* C13 (amended): the same, provided no agent ahead of the earlier attacker
\* has, in that pass, killed the earlier attacker or the victim or made a
\* kill as the victim; the territory goes to the earlier attacker unless it
\* is the primary agent in the no-inheritance mode; in the mutual case the
\* earlier agent is not killed by the later one (a third agent may kill it).
FirstAttackerWins ==
  pc = "pickup" =>
    /\ \A v \in Agents : \A a1, a2 \in Agents :
         a1 < a2 /\ CouldKill(a1, v) /\ CouldKill(a2, v) /\ Undisturbed(a1, v)
           => /\ Killed(a1, v) /\ ~Killed(a2, v)
              /\ TookTerritory(a1, v) \/ (difficulty = "impossible" /\ a1 = Human)
    /\ \A a, b \in Agents :
         a < b /\ CouldKill(a, b) /\ CouldKill(b, a) /\ Undisturbed(a, b)
           => /\ Killed(a, b) /\ ~Killed(b, a) /\ KillsCredited(b) = 0
              /\ players[a].alive \/ \E c \in Agents \ {a, b} : Killed(c, a)

\* two attackers could kill the same victim and the earlier one did
FirstAttackerWinsWitness ==
  /\ pc = "pickup"
  /\ \E v \in Agents : \E a1, a2 \in Agents :
       a1 < a2 /\ CouldKill(a1, v) /\ CouldKill(a2, v) /\ Undisturbed(a1, v) /\ Killed(a1, v)


\* ------------------------------------------------------------------------
\* TerritoryMap called on its own
\* ------------------------------------------------------------------------
StorableIds == 0 .. MaxUint8

\* C14 (as stated): for any grid and any two owner ids A and B,
\* transferTerritory(A, B) followed by transferTerritory(B, A) leaves the set
\* of tiles owned by A equal to what it was before the first call.
TransferRoundTripAnyIds ==
  hist.mapOp = "roundTrip" =>
    TilesOf(territoryMap.ownerMap, hist.mapArgs[1])
      = TilesOf(hist.mapBefore.ownerMap, hist.mapArgs[1])

\* C14 (amended): the round trip restores the tile set of A when both ids
\* are values a grid cell can hold and no tile belongs to B before the first
\* call (or A = B); otherwise A ends up with B's former tiles as well, or
\* loses its own.
TransferRoundTripRestores ==
  hist.mapOp = "roundTrip" =>
    LET a == hist.mapArgs[1]
        b == hist.mapArgs[2]
    IN /\ a \in StorableIds /\ b \in StorableIds
          /\ (a = b \/ TilesOf(hist.mapBefore.ownerMap, b) = {})
          => TilesOf(territoryMap.ownerMap, a) = TilesOf(hist.mapBefore.ownerMap, a)
       /\ a \in StorableIds /\ b \in StorableIds
          => TilesOf(territoryMap.ownerMap, a)
               = TilesOf(hist.mapBefore.ownerMap, a) \cup TilesOf(hist.mapBefore.ownerMap, b)

\* A's tiles went to a B that had none and came back
TransferRoundTripWitness ==
  /\ hist.mapOp = "roundTrip"
  /\ hist.mapArgs[1] \in StorableIds \ {0} /\ hist.mapArgs[2] \in StorableIds \ {0}
  /\ hist.mapArgs[1] # hist.mapArgs[2]
  /\ TilesOf(hist.mapBefore.ownerMap, hist.mapArgs[1]) # {}
  /\ TilesOf(hist.mapBefore.ownerMap, hist.mapArgs[2]) = {}
  /\ TilesOf(hist.mapMid.ownerMap, hist.mapArgs[2])
       = TilesOf(hist.mapBefore.ownerMap, hist.mapArgs[1])

\* the grid and every per-owner count are the same in two maps
SameMap(g1, g2) ==
  /\ g1.ownerMap = g2.ownerMap
  /\ \A id \in OwnerInputs \cup Agents : CountOwnedTiles(g1, id) = CountOwnedTiles(g2, id)

\* C15 (as stated): for any in-bounds tile, any owner id and any prior grid, a
\* second setOwner(x, y, id) right after the first changes neither the grid
\* nor any per-owner count.
SetOwnerIdempotent ==
  hist.mapOp = "setOwner" /\ IsValidTile(hist.mapArgs[1], hist.mapArgs[2])
    => SameMap(territoryMap, hist.mapMid)

OutsideGrid(x, y) == x \notin 0 .. (WidthTiles - 1) \/ y \notin 0 .. (HeightTiles - 1)

\* C16: getOwner on a coordinate outside the grid returns a sentinel that is
\* neither neutral nor a storable owner id, and setOwner on such a coordinate
\* leaves every tile and every per-owner count unchanged; inside the grid
\* getOwner never returns the sentinel.
OutOfBoundsIsBenign ==
  hist.mapOp = "setOwner" =>
    IF OutsideGrid(hist.mapArgs[1], hist.mapArgs[2])
    THEN /\ hist.mapRet = -1
         /\ hist.mapRet \notin StorableIds
         /\ SameMap(hist.mapMid, hist.mapBefore)
         /\ SameMap(territoryMap, hist.mapBefore)
    ELSE hist.mapRet \in StorableIds

\* an owned map was asked about, and told to set, a tile outside the grid
\* whose flat index would fall inside the array
OutOfBoundsIsBenignWitness ==
  /\ hist.mapOp = "setOwner"
  /\ hist.mapArgs[1] = -1 /\ hist.mapArgs[2] \in 1 .. (HeightTiles - 1)
  /\ hist.mapArgs[3] \in Agents
  /\ hist.mapRet = -1
  /\ TilesOf(hist.mapBefore.ownerMap, Human) # {}

\* C17 (as stated): transferTerritory or clearOwnerTerritory called with an
\* owner id that is negative or too large for a grid cell is rejected before
\* mutation: no tile and no per-owner count changes.
BulkRejectsBadIds ==
  /\ hist.mapOp \in {"transferTerritory", "clearOwnerTerritory"}
  /\ \E i \in DOMAIN hist.mapArgs : hist.mapArgs[i] \notin StorableIds
  => SameMap(territoryMap, hist.mapBefore)


\* ------------------------------------------------------------------------
\* C18: a capture whose copied trail has fewer than 3 points is a silent
\* no-op: a drain that applies only such jobs changes no tile and no count,
\* and still removes them from the queue
\* ------------------------------------------------------------------------
ShortTrailsOnly ==
  /\ pc = "orphan"
  /\ hist.drained > 0
  /\ \A i \in 1 .. hist.drained : Len(hist.queueBefore[i].tail) < 3

ShortTrailIsNoOp ==
  ShortTrailsOnly =>
    /\ territoryMap.ownerMap = hist.gridBefore.ownerMap
    /\ \A id \in Agents : CountOwnedTiles(territoryMap, id) = CountOwnedTiles(hist.gridBefore, id)
    /\ captureQueue = SubSeq(hist.queueBefore, hist.drained + 1, Len(hist.queueBefore))
    /\ hist.applied = [i \in 1 .. hist.drained |-> hist.queueBefore[i].serial]

\* a job with a one- or two-point trail recorded outside the owner's
\* territory was drained
ShortTrailIsNoOpWitness ==
  /\ ShortTrailsOnly
  /\ \E i \in 1 .. Len(hist.queueBefore[1].tail) :
       GetOwnerAtWorld(hist.gridBefore, hist.queueBefore[1].tail[i])
         # hist.queueBefore[1].player

\* the tile of flat index k is neutral in ownerMap m and each of its four
\* neighbours is a tile of owner 1 or lies outside the grid
NeutralEnclosed(m, k) ==
  LET x == k % WidthTiles
      y == k \div WidthTiles
      nb == { << x, y - 1 >>, << x, y + 1 >>, << x - 1, y >>, << x + 1, y >> }
  IN /\ m[k] = 0
     /\ \A n \in nb :
          (n[1] \in 0 .. (WidthTiles - 1) /\ n[2] \in 0 .. (HeightTiles - 1))
            => m[n[2] * WidthTiles + n[1]] = 1

SweptMap(m) == [k \in TileIdx |-> IF NeutralEnclosed(m, k) THEN 1 ELSE m[k]]

SweepRan == pc = "camp" /\ hist.sweepDue

\* owner 1 holds at least a tenth of the grid by the cached count
SweepWorthwhile(g) == CountOwnedTiles(g, 1) * 100 >= 10 * GetTotalTiles

\* C19 as stated: whenever the throttle lets the orphan sweep through, exactly
\* the neutral tiles enclosed by owner 1 and the grid edge change, to owner 1.
SweepAnnexesWheneverDue ==
  SweepRan => territoryMap.ownerMap = SweptMap(hist.sweepBefore.ownerMap)

\* C19: whenever the throttle lets the orphan sweep through and owner 1 holds
\* at least 10% of the grid, exactly the neutral tiles whose four neighbours
\* are owner 1's or outside the grid change, to owner 1; below 10% no tile
\* changes. A grid owned by 1 but for one neutral tile ends at 100% for owner 1.
SweepAnnexesEnclosed ==
  SweepRan =>
    /\ territoryMap.ownerMap =
         IF SweepWorthwhile(hist.sweepBefore) THEN SweptMap(hist.sweepBefore.ownerMap)
         ELSE hist.sweepBefore.ownerMap
    /\ (/\ Cardinality(OwnedTiles(hist.sweepBefore, 0)) = 1
        /\ Cardinality(OwnedTiles(hist.sweepBefore, 1)) = GetTotalTiles - 1
        /\ CountOwnedTiles(hist.sweepBefore, 1) = GetTotalTiles - 1)
         => CountOwnedTiles(territoryMap, 1) * 100 = 100 * GetTotalTiles

SweepAnnexesEnclosedWitness ==
  /\ SweepRan
  /\ Cardinality(OwnedTiles(hist.sweepBefore, 0)) = 1
  /\ Cardinality(OwnedTiles(hist.sweepBefore, 1)) = GetTotalTiles - 1
  /\ CountOwnedTiles(territoryMap, 1) = GetTotalTiles
  /\ OwnedTiles(territoryMap, 1) = TileIdx

\* at the start of the pass v holds a boost that has not run out
ImmuneAtPass(v) == v \in DOMAIN hist.passBoost /\ now < hist.passBoost[v]

\* at the start of the pass a is within the collision radius of a point of
\* v's trail other than the two newest, both alive, v's trail 3 points or more
WithinReach(a, v) ==
  LET att == hist.passPlayers[a]
      vic == hist.passPlayers[v]
  IN /\ a # v /\ att.alive /\ vic.alive
     /\ Len(vic.tail) >= 3
     /\ \E i \in 1 .. (Len(vic.tail) - 2) :
          25 * DistSq(att.pos, vic.tail[i]) < 16 * PlayerRadius * PlayerRadius

RecreatedButCounter ==
  /\ \E spawns \in spawnSet :
       /\ territoryMap' = NewGameMap(spawns)
       /\ players' = NewGamePlayers(spawns)
  /\ wasInOwnTerritory' = [a \in Agents |-> TRUE]
  /\ campingTimers' = << >>
  /\ shrinkAccumulators' = << >>
  /\ boostEndTimes' = << >>
  /\ boostPickups' = {}
  /\ captureQueue' = << >>
  /\ ~gameOver' /\ ~isVictory'

\* C22: right after restartGame the grid, the roster (alive flags, trails,
\* kill counts), the entered-territory flags, the camping timers and shrink
\* accumulators, the boosts and pickups, the capture queue, the game-over
\* flags and the orphan-sweep counter equal their values right after
\* construction, up to the spawn positions of the bots.
RestartRecreatesState ==
  [][RestartStep => RecreatedButCounter /\ orphanCheckCounter' = 0]_vars

\* the same without the orphan-sweep counter
RestartRecreatesAllButCounter == [][RestartStep => RecreatedButCounter]_vars

\* the step being taken resolves no death
NoDeathInStep == hist'.deaths = hist.deaths

\* C23: within a tick the grid and the per-owner counts are left as they are
\* by input, bot decisions, motion and boost expiry (move), by the boost
\* pickups and by the end-condition check, and by the wall check, the trail
\* updates and the collision pass whenever the step resolves no death; only
\* the queue drain, the orphan sweep, the shrink step and death resolution
\* change them.
GridChangedOnlyByOwners ==
  [][(/\ ~RestartStep
      /\ \/ pc \in {"move", "pickup", "end"}
         \/ pc \in {"wall", "tail", "collide"} /\ NoDeathInStep)
       => territoryMap' = territoryMap]_vars

\* after the trail updates of a tick without a death a job waits in the
\* queue that will change the grid once it is drained
GridChangedOnlyByOwnersWitness ==
  /\ pc = "collide"
  /\ hist.deaths = << >>
  /\ \E i \in 1 .. Len(captureQueue) :
       /\ captureQueue[i].serial = hist.serial
       /\ CaptureTerritoryFromTail(territoryMap, captureQueue[i].player,
                                   players[captureQueue[i].player].pos,
                                   captureQueue[i].tail) # territoryMap

RECURSIVE ReplayFromSnapshot(_, _)
\* the grid the first k jobs of this tick's drain produce when each is closed
\* at the position its agent had when the job was queued
ReplayFromSnapshot(g, k) ==
  IF k = 0 THEN g
  ELSE LET job == hist.queueBefore[k]
       IN CaptureTerritoryFromTail(ReplayFromSnapshot(g, k - 1), job.player,
                                   hist.enqueuedAt[job.serial], job.tail)

\* C24: a queued job is an immutable snapshot: what a drain writes is what the
\* jobs' copied trails and the grid at the drain determine, the same as if
\* every agent still stood where it was when its job was queued.
JobIsSnapshot ==
  (pc = "orphan" /\ hist.drained > 0)
    => territoryMap = ReplayFromSnapshot(hist.gridBefore, hist.drained)

\* the kills a makes in the pass, as sequence numbers of its career
KillNumbers(a) ==
  { hist.killsBefore[a] + j :
      j \in 1 .. Cardinality({ i \in DOMAIN hist.killLog : hist.killLog[i].attacker = a }) }

\* C25: a kill grants the attacker a boost exactly when it is the attacker's
\* 3rd, 6th, 9th ... kill: after a pass, an agent one of whose kills in the
\* pass had such a number holds a boost started in this pass, and every other
\* agent's boost entry is what it was before the pass.
BoostOnEveryThirdKill ==
  pc = "pickup" =>
    \A a \in Agents :
      /\ players[a].kills = hist.killsBefore[a] + Cardinality(KillNumbers(a))
      /\ IF \E n \in KillNumbers(a) : n > 0 /\ n % 3 = 0
         THEN a \in DOMAIN boostEndTimes /\ boostEndTimes[a] = now + BoostTicks
         ELSE /\ a \in DOMAIN boostEndTimes <=> a \in DOMAIN hist.passBoost
              /\ a \in DOMAIN boostEndTimes => boostEndTimes[a] = hist.passBoost[a]

\* in one pass an agent without a boost makes its 3rd kill, which grants
\* one, and its 4th, which leaves it as the 3rd set it
BoostOnEveryThirdKillWitness ==
  /\ pc = "pickup"
  /\ \E a \in Agents :
       /\ KillNumbers(a) = {3, 4}
       /\ a \notin DOMAIN hist.passBoost
       /\ a \in DOMAIN boostEndTimes

\* the trail-update step being taken resolves a death (a self-collision)
SelfDeathStep == pc = "tail" /\ Len(hist'.deaths) = Len(hist.deaths) + 1

\* the trail the self-collision test of the step sees: the new point pushed
TestedTrail == Append(players[cur].tail, players[cur].pos)

\* the agent is within 0.8 radius of the segment from a to b
NearSegment(q, a, b) ==
  LET lenSq == DistSq(a, b)
      dot == (q[1] - a[1]) * (b[1] - a[1]) + (q[2] - a[2]) * (b[2] - a[2])
  IN IF lenSq = 0 \/ dot <= 0 THEN 25 * DistSq(q, a) < 16 * PlayerRadius * PlayerRadius
     ELSE IF dot >= lenSq THEN 25 * DistSq(q, b) < 16 * PlayerRadius * PlayerRadius
     ELSE 25 * (DistSq(q, a) * lenSq - dot * dot) < 16 * PlayerRadius * PlayerRadius * lenSq

\* the agent touches its trail somewhere other than the 5 newest points
TouchesOlderTrail ==
  LET t == TestedTrail
      q == players[cur].pos
  IN \/ \E i \in 1 .. (Len(t) - 5) : 25 * DistSq(q, t[i]) < 16 * PlayerRadius * PlayerRadius
     \/ \E i \in 1 .. (Len(t) - 6) : NearSegment(q, t[i], t[i + 1])

\* C26: an agent dies of self-collision only with a trail of 10 points or
\* more and only by touching a point or segment older than its 5 newest
\* points; the death has no killer: no kill count changes, no other agent
\* gains a tile, and the primary agent's tiles are all cleared.
SelfCollisionGated ==
  [][SelfDeathStep =>
       LET d == hist'.deaths[Len(hist'.deaths)]
       IN /\ Len(TestedTrail) >= 10
          /\ TouchesOlderTrail
          /\ d.victim = cur /\ d.killer = 0
          /\ \A a \in Agents : players'[a].kills = players[a].kills
          /\ \A b \in Agents \ {cur} : TilesOf(d.after, b) \subseteq TilesOf(d.before, b)
          /\ cur = Human => TilesOf(d.after, cur) = {}]_vars

\* an agent that owned tiles has died of self-collision in this tick
SelfCollisionGatedWitness ==
  /\ pc \in {"tail", "collide"}
  /\ \E i \in DOMAIN hist.deaths :
       /\ hist.deaths[i].killer = 0
       /\ TilesOf(hist.deaths[i].before, hist.deaths[i].victim) # {}
       /\ \E b \in Agents \ {hist.deaths[i].victim} : TilesOf(hist.deaths[i].before, b) # {}

\* the camping timer of agent a (an agent without an entry reads as 0)
TimerOf(timers, a) == IF a \in DOMAIN timers THEN timers[a] ELSE 0

\* a is alive, stands on a tile it owns and has an empty trail
IsCamping(a) ==
  /\ players[a].alive
  /\ territoryMap.ownerMap[(players[a].pos[2] \div TileSize) * WidthTiles
                            + players[a].pos[1] \div TileSize] = a
  /\ players[a].tail = << >>

\* C27 as stated: in every shrink-regulator update the timer of an agent that
\* is alive, on its own tile and without a trail goes up by one tick, and the
\* timer of every other agent goes down by one tick, floored at zero; no
\* timer is ever negative.
CampingTimerUpOrDown ==
  /\ [][pc = "camp" =>
          \A a \in Agents :
            TimerOf(campingTimers', a) =
              IF IsCamping(a) THEN TimerOf(campingTimers, a) + 1
              ELSE IF TimerOf(campingTimers, a) >= 1 THEN TimerOf(campingTimers, a) - 1
              ELSE 0]_vars
  /\ [](\A a \in DOMAIN campingTimers : campingTimers[a] >= 0)

\* C27: the same, except that the timer of an agent that is not alive is
\* set to zero outright.
CampingTimerRule ==
  /\ [][pc = "camp" =>
          \A a \in Agents :
            TimerOf(campingTimers', a) =
              IF ~players[a].alive THEN 0
              ELSE IF IsCamping(a) THEN TimerOf(campingTimers, a) + 1
              ELSE IF TimerOf(campingTimers, a) >= 1 THEN TimerOf(campingTimers, a) - 1
              ELSE 0]_vars
  /\ [](\A a \in DOMAIN campingTimers : campingTimers[a] >= 0)

\* after an update one agent's timer is past the threshold, another agent's
\* has come down to zero, and a dead agent's reads zero
CampingTimerRuleWitness ==
  /\ pc = "end"
  /\ \E a \in Agents : TimerOf(campingTimers, a) > CampingThresholdTicks
  /\ \E a \in Agents : players[a].alive /\ ~IsCamping(a) /\ TimerOf(campingTimers, a) = 0
  /\ \E a \in Agents : ~players[a].alive /\ TimerOf(campingTimers, a) = 0

\* index of the tile under agent a
TileUnder(a) == (players[a].pos[2] \div TileSize) * WidthTiles + players[a].pos[1] \div TileSize

\* the border set of agent a on grid m: tiles of a with a four-neighbour that
\* is outside the grid or not owned by a
BorderSet(m, a) ==
  LET notOwned(x, y) == \/ x < 0 \/ x >= WidthTiles \/ y < 0 \/ y >= HeightTiles
                        \/ m[y * WidthTiles + x] # a
  IN { k \in TileIdx :
         /\ m[k] = a
         /\ \/ notOwned((k % WidthTiles) - 1, k \div WidthTiles)
            \/ notOwned((k % WidthTiles) + 1, k \div WidthTiles)
            \/ notOwned(k % WidthTiles, (k \div WidthTiles) - 1)
            \/ notOwned(k % WidthTiles, (k \div WidthTiles) + 1) }

\* the tiles agent a loses in the step
LostTiles(a) ==
  { k \in TileIdx : territoryMap.ownerMap[k] = a /\ territoryMap'.ownerMap[k] # a }

\* floor(accumulator x rate) of agent a in this update, the accumulator being
\* the stored one plus dt
ShrinkQuota(a) ==
  TilesToRemove(TimerOf(shrinkAccumulators, a) + AccPerTick, ShrinkRateOf(difficulty))

\* C28: in a shrink-regulator update an agent loses tiles only if its timer
\* then exceeds the threshold; every tile that changes turns neutral, was in
\* its owner's border set at the start of the step and is not the tile under
\* that owner; and a camping agent P whose timer exceeds the threshold and
\* whose quota n is at least 1 loses exactly min(n, |B minus the tile under P|)
\* tiles.
ShrinkTakesBorderTiles ==
  [][pc = "camp" =>
       /\ \A k \in TileIdx :
            territoryMap'.ownerMap[k] # territoryMap.ownerMap[k]
              => territoryMap'.ownerMap[k] = 0 /\ territoryMap.ownerMap[k] \in Agents
       /\ \A a \in Agents :
            LET B == BorderSet(territoryMap.ownerMap, a) \ {TileUnder(a)}
                n == ShrinkQuota(a)
            IN /\ LostTiles(a) \subseteq B
               /\ LostTiles(a) # {} =>
                    IsCamping(a) /\ TimerOf(campingTimers', a) > CampingThresholdTicks
               /\ (IsCamping(a) /\ TimerOf(campingTimers', a) > CampingThresholdTicks /\ n >= 1)
                    => Cardinality(LostTiles(a)) = IF n < Cardinality(B) THEN n ELSE Cardinality(B)
     ]_vars

\* agent a has just been shrunk for the first time: its timer is one past the
\* threshold, the accumulator holds what two removed tiles left of one dt, and
\* it owns two tiles fewer than its starting block
ShrinkTakesBorderTilesWitness ==
  /\ pc = "end"
  /\ \E a \in Agents :
       /\ IsCamping(a)
       /\ TimerOf(campingTimers, a) = CampingThresholdTicks + 1
       /\ TimerOf(shrinkAccumulators, a) = AccPerTick - 2 * (AccScale \div ShrinkRate)
       /\ difficulty # "impossible"
       /\ Cardinality(OwnedTiles(territoryMap, a)) + 2
            = Cardinality(OwnedTiles(NewGameMap(AllInbound), a))

\* a decision was evaluated in the last step
Decided == hist.botBranch # ""

\* the deciding bot's trail length and its threshold test at the evaluation
\* (BotUpdate does not move the bot)
DeciderTail == Len(players[Decider].tail)

OverThreshold ==
  DeciderTail * 100 > hist.botBefore.maxTailLength * hist.botBefore.caution

\* the priority order with fleeing required from trail length minTrail + 1 on
PriorityOrder(minTrail) ==
  Decided =>
    LET danger == hist.botBefore.dangerLevel > 500 /\ DeciderTail > minTrail
        found == FindHarassTarget(territoryMap, players, Decider) # 0
    IN /\ danger => hist.botBranch = "flee"
       /\ (~danger /\ OverThreshold) => hist.botBranch = "retreat"
       /\ (~danger /\ ~OverThreshold /\ ~found) => hist.botBranch = "table"
       /\ (~danger /\ ~OverThreshold) => hist.botBranch \in {"harass", "table"}
       /\ hist.botBranch \in {"flee", "retreat", "harass"}
            => botAI[Decider].state = hist.botBranch

SafetyPassesAlways ==
  Decided =>
    botAI[Decider].target =
      AvoidOwnTail(players, Decider, AvoidBoundaries(players, Decider, hist.botChosen))

\* the edges of the per-state transition table
TableEdges ==
  { << "wander", "wander" >>, << "wander", "expand" >>, << "wander", "retreat" >>,
    << "expand", "expand" >>, << "expand", "wander" >>, << "expand", "retreat" >>,
    << "harass", "harass" >>, << "harass", "expand" >>, << "harass", "retreat" >>,
    << "retreat", "retreat" >>, << "retreat", "wander" >>,
    << "flee", "flee" >>, << "flee", "wander" >>, << "flee", "retreat" >> }

\* the edges taken only by a bot on its own tile with an empty trail
HomeEdges ==
  { << "retreat", "wander" >>, << "flee", "wander" >>, << "wander", "expand" >> }

\* C31: a decision evaluation in which no priority rule fires moves the bot
\* along an edge of the transition table only, and along retreat -> wander,
\* flee -> wander and wander -> expand only when the bot stands on its own
\* tile with an empty trail; an update without a decision evaluation leaves
\* the state as it is.
TableMovesAlongEdges ==
  [][LET edge == << botAI[Decider].state, botAI'[Decider].state >>
         atHome == /\ territoryMap.ownerMap[TileUnder(Decider)] = Decider
                   /\ players[Decider].tail = << >>
     IN /\ hist'.botBranch = "table" =>
             /\ edge \in TableEdges
             /\ edge \in HomeEdges => atHome
        /\ hist'.botBranch = "" => edge[1] = edge[2]
    ]_vars

\* the table has just taken a retreating bot that is back home to wander
TableMovesAlongEdgesWitness ==
  /\ hist.botBranch = "table"
  /\ hist.botBefore.state = "retreat"
  /\ botAI[Decider].state = "wander"

\* C32: right after the trail-update step of an agent, an agent standing on
\* a tile it owns has an empty trail and is not drawing, and a live agent
\* standing on any other tile is drawing with at least one trail point; a
\* dead agent's trail is empty in every state.
TrailMatchesGround ==
  /\ [][pc = "tail" =>
          LET p == players'[cur]
              onOwn == territoryMap'.ownerMap[(p.pos[2] \div TileSize) * WidthTiles
                                               + p.pos[1] \div TileSize] = cur
          IN /\ onOwn => p.tail = << >> /\ ~p.isDrawingTail
             /\ (p.alive /\ ~onOwn) => p.isDrawingTail /\ Len(p.tail) >= 1]_vars
  /\ [](\A a \in Agents : ~players[a].alive => players[a].tail = << >>)

\* within one tick the trail step has left one agent home again with its
\* trail cleared and a capture queued, another drawing outside, and a third
\* agent is dead
TrailMatchesGroundWitness ==
  /\ pc = "collide"
  /\ \E a \in Agents : /\ players[a].alive /\ IsCamping(a)
                        /\ \E i \in 1 .. Len(captureQueue) : captureQueue[i].player = a
  /\ \E a \in Agents : /\ players[a].alive /\ ~IsCamping(a) /\ Len(players[a].tail) >= 2
  /\ \E a \in Agents : ~players[a].alive

\* C33: transferTerritory(A, A), A an owner id a tile can hold, leaves every
\* tile and every cached per-owner count as they were, so countOwnedTiles(A) still equals the number of tiles
\* owned by A.
TransferToSelfIsIdentity ==
  (hist.mapOp = "transferTerritory" /\ hist.mapArgs[1] = hist.mapArgs[2]
     /\ hist.mapArgs[1] \in 1 .. MaxUint8)
    => /\ SameMap(territoryMap, hist.mapBefore)
       /\ CountOwnedTiles(territoryMap, hist.mapArgs[1])
            = Cardinality(TilesOf(territoryMap.ownerMap, hist.mapArgs[1]))

\* ------------------------------------------------------------------------
\* A match four ticks in whose drain is starved: the primary agent has gone
\* west out of its territory and come back, the capture it queued at re-entry
\* is still waiting because the time budget of processQueuedCaptures ran out,
\* and the bots, both spawned in the east, have been drawing westwards since
\* they left their block
\* ------------------------------------------------------------------------
InitStalled ==
  LET west(k) == << HumanStart[1] - k * StepPx, HumanStart[2] >>
      east(k) == << EastInbound.pos[1] - k * StepPx, EastInbound.pos[2] >>
      bot == [NewPlayer(east(4), "W") EXCEPT
                !.tail = << east(1), east(2), east(3), east(4) >>,
                !.isDrawingTail = TRUE, !.lastTailPoint = east(4)]
  IN /\ territoryMap = NewGameMap(AllInbound)
     /\ players = [a \in Agents |-> IF a = Human THEN NewPlayer(HumanStart, "E") ELSE bot]
     /\ wasInOwnTerritory = [a \in Agents |-> a = Human]
     /\ captureQueue = << [player |-> Human, tail |-> << west(1), west(2), west(1) >>,
                           serial |-> 1] >>
     /\ campingTimers = [a \in Agents |-> IF a = Human THEN 1 ELSE 0]
     /\ shrinkAccumulators = [a \in Agents |-> 0]
     /\ boostEndTimes = << >>
     /\ decisionTimer = [b \in Bots |-> 0]
     /\ botAI = << >>
     /\ orphanCheckCounter = 1
     /\ gameOver = FALSE
     /\ isVictory = FALSE
     /\ difficulty = "easy"
     /\ now = 4
     /\ pc = "move"
     /\ cur = 1
     /\ boostPickups = {}
     /\ steerLeft = SteerOnly({Human}, 2)
     /\ restartLeft = 1
     /\ pickupLeft = 0
     /\ stallLeft = 2
     /\ spawnSet = {AllInbound}
     /\ hist = [NewHist EXCEPT !.serial = 1, !.enqueuedAt = << HumanStart >>]

SpecStalled == InitStalled /\ [][Next]_vars

\* C34: at every tick boundary a dead agent owns no tile, also when a job it
\* had queued before dying was applied after its death.
DeadOwnNothing ==
  pc = "move"
    => \A a \in Agents :
         ~players[a].alive => /\ OwnedTiles(territoryMap, a) = {}
                              /\ CountOwnedTiles(territoryMap, a) = 0

\* C35: a dead agent stays as it is until restart: it is not alive again, does
\* not move, draws no trail and is credited no kill; so the number of live
\* bots never goes up within a match.
LiveBots(ps) == { b \in Bots : ps[b].alive }

DeathIsPermanent ==
  [][~RestartStep =>
       /\ \A a \in Agents :
            ~players[a].alive =>
               /\ ~players'[a].alive
               /\ players'[a].pos = players[a].pos
               /\ players'[a].tail = << >> /\ ~players'[a].isDrawingTail
               /\ players'[a].kills = players[a].kills
       /\ Cardinality(LiveBots(players')) <= Cardinality(LiveBots(players))]_vars

\* a bot killed in an earlier tick has been through the motion step of this
\* tick, next to the agent that was credited the kill
DeathIsPermanentWitness ==
  /\ pc = "wall"
  /\ ~gameOver
  /\ \E b \in Bots : \E a \in Agents :
       ~players[b].alive /\ players[a].alive /\ players[a].kills > 0

\* C36: the kill counts of all agents add up to the number of agents that
\* have died with a killer since the match started (the dead bots, plus one if
\* the primary agent was killed by another agent), and no kill count goes
\* down within a match.
SumKills(ps) == SumCounts([a \in Agents |-> ps[a].kills], Agents)

\* the handlePlayerDeath calls with a killer made by the step being taken
KilledInStep ==
  IF Len(hist'.deaths) > Len(hist.deaths)
  THEN { i \in (Len(hist.deaths) + 1) .. Len(hist'.deaths) : hist'.deaths[i].killer # 0 }
  ELSE {}

\* 1 if the primary agent died in this tick at the hands of another agent
PrimaryKilledNow ==
  IF \E i \in DOMAIN hist.deaths : hist.deaths[i].victim = Human /\ hist.deaths[i].killer # 0
  THEN 1 ELSE 0

KillsConserved ==
  /\ [](/\ (players[Human].alive
              => SumKills(players) = Cardinality(Bots \ LiveBots(players)))
         /\ ((\E i \in DOMAIN hist.deaths : hist.deaths[i].victim = Human)
              => SumKills(players)
                   = Cardinality(Bots \ LiveBots(players)) + PrimaryKilledNow))
  /\ [][~RestartStep =>
          /\ SumKills(players') = SumKills(players) + Cardinality(KilledInStep)
          /\ \A a \in Agents : players'[a].kills >= players[a].kills]_vars

\* the primary agent has been killed by a bot that had killed the other bot
KillsConservedWitness ==
  /\ pc = "move"
  /\ PrimaryKilledNow = 1
  /\ SumKills(players) >= 2

\* C37: an end-condition check of a running match sets game over with defeat
\* exactly when the primary agent is dead, and with victory exactly when the
\* primary agent is alive and no bot is; nothing else sets game over, and once
\* set the flag and the outcome stay until restartGame.
OutcomeDecidedOnce ==
  /\ [][(pc = "end" /\ ~gameOver) =>
          /\ (gameOver' /\ ~isVictory') <=> ~players[Human].alive
          /\ (gameOver' /\ isVictory') <=> (players[Human].alive /\ LiveBots(players) = {})]_vars
  /\ [][(pc # "end" /\ ~gameOver) => ~gameOver']_vars
  /\ [][(gameOver /\ ~RestartStep) => (gameOver' /\ isVictory' = isVictory)]_vars

\* a match won earlier keeps its outcome through a later end-condition check
\* that finds the primary agent dead
OutcomeDecidedOnceWitness ==
  /\ pc = "move"
  /\ gameOver /\ isVictory
  /\ ~players[Human].alive

\* C38: once game over is set, no step before restartGame changes the owner
\* of a tile, moves, kills or respawns an agent, changes a kill count, or
\* queues or applies a capture job.
FrozenAfterGameOver ==
  [][(gameOver /\ ~RestartStep) =>
       /\ territoryMap' = territoryMap
       /\ \A a \in Agents : /\ players'[a].pos = players[a].pos
                            /\ players'[a].alive = players[a].alive
                            /\ players'[a].kills = players[a].kills
       /\ Len(hist'.deaths) <= Len(hist.deaths)
       /\ captureQueue' = captureQueue
       /\ hist'.serial = hist.serial /\ hist'.nApplied = hist.nApplied]_vars

DrainedPoints ==
  LET tt == TailTiles(players[DrainedOwner].pos, DrainedJob.tail)
  IN { tt[i] : i \in 1 .. Len(tt) } \cup OwnedBefore

\* the tiles of the padded box
DrainedBox ==
  { t \in (0 .. WidthTiles - 1) \X (0 .. HeightTiles - 1) :
      WithinBox(t, DrainedPoints, CapturePadding) }

\* the barrier cells as tiles of the arena: P's territory and the thick trail
DrainedBarrier ==
  LET tt == TailTiles(players[DrainedOwner].pos, DrainedJob.tail)
      box == CaptureBox(hist.gridBefore, DrainedOwner, tt)
  IN OwnedBefore
       \cup { << c[1] + box.minX, c[2] + box.minY >> : c \in TailBarrier(tt, box) }

\* the non-barrier tiles of the box joined to one of its edges
OpenToEdge ==
  LET free == DrainedBox \ DrainedBarrier
      edge == { t \in free : \E d \in { << 1, 0 >>, << -1, 0 >>, << 0, 1 >>, << 0, -1 >> } :
                               << t[1] + d[1], t[2] + d[2] >> \notin DrainedBox }
      blocked == ((-1 .. WidthTiles) \X (-1 .. HeightTiles)) \ free
  IN Reach(edge, edge, blocked)

CaptureAssignsOnlyToOwner ==
  CaptureDone =>
    /\ \A t \in Changed : territoryMap.ownerMap[Idx(t)] = DrainedOwner
    /\ Changed \cap OwnedBefore = {}
    /\ CountOwnedTiles(territoryMap, DrainedOwner)
         >= CountOwnedTiles(hist.gridBefore, DrainedOwner)
    /\ Changed \subseteq DrainedBox
    /\ Changed \cap OpenToEdge = {}

\* a capture by an agent that held territory took tiles enclosed by the
\* barrier and left alone the open tiles of a box smaller than the grid
CaptureAssignsOnlyToOwnerWitness ==
  /\ CaptureDone
  /\ OwnedBefore # {}
  /\ OpenToEdge # {}
  /\ DrainedBox # (0 .. WidthTiles - 1) \X (0 .. HeightTiles - 1)
  /\ \E t \in Changed : t \notin DrainedBarrier
====
